---- MODULE Spec2Model ----
(***************************************************************************)
(* TaskFlow (work-assignment app): the document store under orgs/<orgId>,  *)
(* the auth session of each browser client, and the page handlers that     *)
(* read and write the store.  Shared state is the store only; every        *)
(* client holds private copies (session user, page state) that go stale.   *)
(***************************************************************************)
EXTENDS Integers, FiniteSets, Sequences, TLC

\* ---------------------------------------------------------------- bounds
MaxTime == 2
MaxComments == 1
MaxChecklist == 1

Clients == {"c1", "c2"}
Uids == {"u1", "u2", "u3"}
InviteIds == {"i1", "i2"}
UserIds == Uids \cup InviteIds
InviteEmails == {"u1", "U1"}
TaskIds == {"t1"}
ProjIds == {"p1"}
TeamIds == {"tm1"}
LogIds == {"a1", "a2"}
Orgs == {"default-org", "other-org"}
Titles == {"A", "B"}
Names == {"A", "B"}
ManagerChoices == {{}, {"u2"}}
MemberChoices == {{}, {"u1", "u2"}}
AssigneeChoices == {{}, {"u1"}}

\* ------------------------------------------------------------- constants
\* APP_CONFIG.defaultOrgId
defaultOrgId == "default-org"

Roles == {"employee", "manager", "admin"}
UserStatuses == {"pending", "active", "disabled"}
TaskStatuses == {"backlog", "in_progress", "blocked", "done"}

\* the table with blocked -> done added
TASK_STATUS_TRANSITIONS_BlockedDone ==
    [s \in TaskStatuses |->
        CASE s = "backlog"     -> {"in_progress", "done"}
          [] s = "in_progress" -> {"blocked", "done"}
          [] s = "blocked"     -> {"in_progress", "done"}
          [] s = "done"        -> {}]

\* TASK_STATUS_TRANSITIONS
TASK_STATUS_TRANSITIONS ==
    [s \in TaskStatuses |->
        CASE s = "backlog"     -> {"in_progress", "done"}
          [] s = "in_progress" -> {"blocked", "done"}
          [] s = "blocked"     -> {"in_progress"}
          [] s = "done"        -> {}]

\* a document id that was never used, and the id of a deleted document
\* (auto-generated ids are never handed out twice)
NoDoc == [exists |-> FALSE, used |-> FALSE]
Gone == [exists |-> FALSE, used |-> TRUE]
NoUser == [id |-> "none"]
NoTime == 0
NoError == "null"

\* ----------------------------------------------------------------- paths
getUsersPath(orgId) == <<"orgs", orgId, "users">>
getTeamsPath(orgId) == <<"orgs", orgId, "teams">>
getProjectsPath(orgId) == <<"orgs", orgId, "projects">>
getAuditLogsPath(orgId) == <<"orgs", orgId, "auditLogs">>
\* variant: the tasks collection of one fixed organisation
getTasksPath_FixedOrg(orgId) == <<"orgs", "other-org", "tasks">>

getTasksPath(orgId) == <<"orgs", orgId, "tasks">>
getCommentsPath(orgId, taskId) == <<"orgs", orgId, "tasks", taskId, "comments">>

\* doc(db, collectionPath, id)
DocRef(collPath, id) == Append(collPath, id)
\* the store addresses documents by org and id: segment 2 and the last one
OrgOf(path) == path[2]
IdOf(path) == path[Len(path)]
Key(path) == <<OrgOf(path), IdOf(path)>>

VARIABLES
    users,          \* stored user profiles, by <<org, uid>>
    tasks,          \* stored tasks, by <<org, taskId>>
    comments,       \* stored comments of a task (author ids), by <<org, taskId>>
    projects,       \* stored projects, by <<org, projectId>>
    teams,          \* stored teams, by <<org, teamId>>
    auditLogs,      \* stored audit log entries, by <<org, logId>>
    rulesDeployed,  \* firestore.rules deployed (README step 4) or test mode
    now,            \* Timestamp.now()
    fbUser,         \* per client: signed-in identity (uid) or "none"
    user,           \* per client: AuthContext user (AppUser copy) or NoUser
    lpc,            \* per client: position of the running loadUserData
    reg,            \* per client: uid whose RegisterPage createUser is still to come
    accounts,       \* identities registered with the identity provider
    loading,        \* per client: AuthContext state `loading`
    error,          \* per client: AuthContext state `error` (message or NoError)
    authCb,         \* per client: an onAuthChange(null) notification is pending
    task,           \* per client: TaskDetailPage state `task` (copy) or NoDoc
    pageComments,   \* per client: TaskDetailPage state `comments`
    projList,       \* per client: ProjectsPage state `projects` (ids listed)
    teamList,       \* per client: TeamsPage state `teams` (ids listed)
    accessed,       \* document/collection paths addressed by the last step
    last            \* the last handler run: op, outcome, arguments

vars == <<users, tasks, comments, projects, teams, auditLogs, rulesDeployed, now, fbUser,
          user, lpc, reg, accounts, loading, error, authCb, task, pageComments,
          projList, teamList, accessed, last>>

storeVars == <<users, tasks, comments>>
sessionVars == <<loading, error, authCb>>
authVars == <<fbUser, user, lpc, reg, accounts, sessionVars>>
taskPageVars == <<task, pageComments>>
projVars == <<projects, teams, projList, teamList>>

\* --------------------------------------------------------- role helpers
\* hasMinimumRole
\* variant: manager ranked above admin
roleHierarchy_ManagerTop == [employee |-> 1, manager |-> 3, admin |-> 2]

roleHierarchy == [employee |-> 1, manager |-> 2, admin |-> 3]
hasMinimumRole(userRole, requiredRole) ==
    roleHierarchy[userRole] >= roleHierarchy[requiredRole]

\* the hooks read the AuthContext user `u` (NoUser when signed out)
useIsAdmin(u) == u # NoUser /\ u.role = "admin"
useIsManager(u) == u # NoUser /\ (u.role = "manager" \/ u.role = "admin")

useCanManageTeam(u, teamId) ==
    IF u = NoUser THEN FALSE
    ELSE IF u.role = "admin" THEN TRUE
    ELSE IF u.role = "manager" THEN teamId \in u.managedTeamIds
    ELSE FALSE

useCanManageProject(u, projectId) ==
    IF u = NoUser THEN FALSE
    ELSE IF u.role = "admin" THEN TRUE
    ELSE IF u.role = "manager" THEN projectId \in u.managedProjectIds
    ELSE FALSE

\* ----------------------------------------------------------- the store
\* variant: the rules let an admin through whatever the status
RulesAllow_AdminBypass(uid) ==
    \/ ~rulesDeployed
    \/ users[<<defaultOrgId, uid>>] = NoDoc
    \/ users[<<defaultOrgId, uid>>].status # "disabled"
    \/ users[<<defaultOrgId, uid>>].role = "admin"

\* firestore.rules: a disabled user is rejected for every request
RulesAllow(uid) ==
    \/ ~rulesDeployed
    \/ users[<<defaultOrgId, uid>>] = NoDoc
    \/ users[<<defaultOrgId, uid>>].status # "disabled"

\* a request of client c carries the token of its signed-in identity
RequestAllowed(c) == fbUser[c] = "none" \/ RulesAllow(fbUser[c])

\* ---------------------------------------------------------------- clock
Tick ==
    /\ now < MaxTime
    /\ now' = now + 1
    /\ accessed' = {}
    /\ last' = [op |-> "tick", outcome |-> "ok"]
    /\ UNCHANGED <<storeVars, rulesDeployed, auditLogs, projVars, authVars, taskPageVars>>

\* no project, team or audit log entry has been created, no page has listed any
NoProjects ==
    /\ projects = [k \in Orgs \X ProjIds |-> NoDoc]
    /\ teams = [k \in Orgs \X TeamIds |-> NoDoc]
    /\ projList = [c \in Clients |-> {}]
    /\ teamList = [c \in Clients |-> {}]
    /\ auditLogs = [k \in Orgs \X LogIds |-> NoDoc]
    /\ loading = [c \in Clients |-> FALSE]
    /\ error = [c \in Clients |-> NoError]
    /\ authCb = [c \in Clients |-> FALSE]

\* ------------------------------------------------------- session seeding
\* the profile as the AuthContext holds it, { id: docSnap.id, ...data }:
\* the fields the pages and hooks read
AppUser(id, doc) ==
    [id |-> id, role |-> doc.role,
     managedTeamIds |-> doc.managedTeamIds,
     managedProjectIds |-> doc.managedProjectIds,
     teamIds |-> doc.teamIds,
     projectIds |-> doc.projectIds]

Profile(email, role, status) ==
    [exists |-> TRUE, used |-> TRUE, orgId |-> defaultOrgId, email |-> email,
     displayName |-> "A", role |-> role, status |-> status,
     managedTeamIds |-> {}, managedProjectIds |-> {},
     teamIds |-> {}, projectIds |-> {}]

SeededUsers ==
    [k \in Orgs \X UserIds |->
        IF k[1] # defaultOrgId THEN NoDoc
        ELSE CASE k[2] = "u1" -> Profile("u1", "employee", "active")
               [] k[2] = "u2" -> Profile("u2", "manager", "active")
               [] k[2] = "u3" -> Profile("u3", "admin", "active")
               [] OTHER -> NoDoc]

\* ------------------------------------------------------ task operations
\* createTask(orgId, data, createdBy)
createTask(orgId, data, createdBy) ==
    [exists |-> TRUE, used |-> TRUE,
     orgId |-> orgId,
     title |-> data.title,
     assigneeIds |-> data.assigneeIds,
     status |-> "backlog",
     checklistItems |-> <<>>,
     createdBy |-> createdBy,
     completedAt |-> NoTime]

\* updateDoc(docRef, updateData): merges the given fields into the document
updateDoc(doc, updateData) ==
    [f \in DOMAIN doc |-> IF f \in DOMAIN updateData THEN updateData[f] ELSE doc[f]]

\* updateTaskStatus that resets completedAt on every status other than done
updateTaskStatus_ClearsCompletedAt(status) ==
    IF status = "done"
    THEN [status |-> status, completedAt |-> now]
    ELSE [status |-> status, completedAt |-> NoTime]

\* updateTaskStatus(orgId, taskId, status): the update it sends
updateTaskStatus(status) ==
    IF status = "done"
    THEN [status |-> status, completedAt |-> now]
    ELSE [status |-> status]

\* updateTask(orgId, taskId, data): the update it sends
updateTask(data) ==
    IF "status" \in DOMAIN data /\ data.status = "done"
    THEN [f \in DOMAIN data \cup {"completedAt"} |->
            IF f = "completedAt" THEN now ELSE data[f]]
    ELSE data

\* TasksPage.handleCreateTask: offered to managers and admins
handleCreateTask(c, tid, data) ==
    LET path == DocRef(getTasksPath(defaultOrgId), tid) IN
    /\ user[c] # NoUser
    /\ useIsManager(user[c])
    /\ tasks[Key(path)] = NoDoc
    /\ accessed' = {path}
    /\ IF RequestAllowed(c)
       THEN /\ tasks' = [tasks EXCEPT ![Key(path)] = createTask(defaultOrgId, data, user[c].id)]
            /\ last' = [op |-> "createTask", outcome |-> "ok"]
       ELSE /\ tasks' = tasks
            /\ last' = [op |-> "createTask", outcome |-> "failed"]
    /\ UNCHANGED <<users, comments, rulesDeployed, auditLogs, projVars, now, authVars, taskPageVars>>

\* TasksPage.handleDeleteTask: offered to managers and admins
handleDeleteTask(c, tid) ==
    LET path == DocRef(getTasksPath(defaultOrgId), tid) IN
    /\ user[c] # NoUser
    /\ useIsManager(user[c])
    /\ tasks[Key(path)].exists
    /\ accessed' = {path}
    /\ IF RequestAllowed(c)
       THEN /\ tasks' = [tasks EXCEPT ![Key(path)] = Gone]
            /\ last' = [op |-> "deleteTask", outcome |-> "ok"]
       ELSE /\ tasks' = tasks
            /\ last' = [op |-> "deleteTask", outcome |-> "failed"]
    /\ UNCHANGED <<users, comments, rulesDeployed, auditLogs, projVars, now, authVars, taskPageVars>>

\* the fields of the loaded task that the page's handlers read
PageTask(tid, taskData) ==
    [id |-> tid, status |-> taskData.status, assigneeIds |-> taskData.assigneeIds,
     checklistItems |-> taskData.checklistItems]

\* loadTask's access check: passes unless
\* !isManager && !taskData.assigneeIds.includes(user?.id || '')
canViewTask_NoAssignee(u, taskData) == useIsManager(u)

canViewTask(u, taskData) ==
    useIsManager(u) \/ u.id \in taskData.assigneeIds

\* TaskDetailPage: mount (task = null, comments = []) and the loadTask effect
loadTask(c, tid) ==
    LET tpath == DocRef(getTasksPath(defaultOrgId), tid)
        cpath == getCommentsPath(defaultOrgId, tid)
        upath == getUsersPath(defaultOrgId)
        taskData == tasks[Key(tpath)]
        outcome ==
            IF ~RequestAllowed(c) THEN "failed"
            ELSE IF ~taskData.exists THEN "not_found"
            ELSE IF ~canViewTask(user[c], taskData) THEN "denied"
            ELSE "shown"
    IN
    /\ user[c] # NoUser
    /\ accessed' = {tpath, cpath, upath}
    /\ task' = [task EXCEPT ![c] =
                    IF outcome = "shown" THEN PageTask(tid, taskData) ELSE NoDoc]
    /\ pageComments' = [pageComments EXCEPT ![c] =
                    IF outcome = "shown" THEN comments[Key(tpath)] ELSE <<>>]
    \* 'Task not found' and 'You do not have access' push /tasks; the catch does not
    /\ last' = [op |-> "loadTask", client |-> c, outcome |-> outcome,
                redirect |-> IF outcome \in {"not_found", "denied"} THEN "/tasks" ELSE "",
                actor |-> user[c].id, role |-> user[c].role, taskId |-> tid]
    /\ UNCHANGED <<storeVars, rulesDeployed, auditLogs, projVars, now, authVars>>

\* variant: the write is conditional on the stored status still being the
\* one the page loaded
handleStatusChange_CompareAndSwap(c, newStatus) ==
    LET path == DocRef(getTasksPath(defaultOrgId), task[c].id)
        allowedTransitions == TASK_STATUS_TRANSITIONS[task[c].status]
    IN
    /\ user[c] # NoUser
    /\ task[c] # NoDoc
    /\ IF newStatus \notin allowedTransitions
       THEN /\ accessed' = {}
            /\ last' = [op |-> "statusChange", client |-> c, outcome |-> "rejected",
                        from |-> task[c].status, to |-> newStatus]
            /\ UNCHANGED <<tasks, task>>
       ELSE /\ accessed' = {path}
            /\ IF /\ RequestAllowed(c)
                  /\ tasks[Key(path)].exists
                  /\ tasks[Key(path)].status = task[c].status
               THEN /\ tasks' = [tasks EXCEPT ![Key(path)] =
                                    updateDoc(@, updateTaskStatus(newStatus))]
                    /\ task' = [task EXCEPT ![c].status = newStatus]
                    /\ last' = [op |-> "statusChange", client |-> c, outcome |-> "written",
                                from |-> task[c].status, to |-> newStatus]
               ELSE /\ last' = [op |-> "statusChange", client |-> c, outcome |-> "failed",
                                from |-> task[c].status, to |-> newStatus]
                    /\ UNCHANGED <<tasks, task>>
    /\ UNCHANGED <<users, comments, rulesDeployed, auditLogs, projVars, now, authVars, pageComments>>

\* TaskDetailPage.handleStatusChange(newStatus)
handleStatusChange(c, newStatus) ==
    LET path == DocRef(getTasksPath(defaultOrgId), task[c].id)
        allowedTransitions == TASK_STATUS_TRANSITIONS[task[c].status]
    IN
    /\ user[c] # NoUser
    /\ task[c] # NoDoc
    /\ IF newStatus \notin allowedTransitions
       THEN \* showError(`Cannot transition from ... to ...`); return
            /\ accessed' = {}
            /\ last' = [op |-> "statusChange", client |-> c, outcome |-> "rejected",
                        from |-> task[c].status, to |-> newStatus]
            /\ UNCHANGED <<tasks, task>>
       ELSE /\ accessed' = {path}
            /\ IF RequestAllowed(c) /\ tasks[Key(path)].exists
               THEN /\ tasks' = [tasks EXCEPT ![Key(path)] =
                                    updateDoc(@, updateTaskStatus(newStatus))]
                    /\ task' = [task EXCEPT ![c].status = newStatus]
                    /\ last' = [op |-> "statusChange", client |-> c, outcome |-> "written",
                                from |-> task[c].status, to |-> newStatus]
               ELSE \* catch: showError('Failed to update status')
                    /\ last' = [op |-> "statusChange", client |-> c, outcome |-> "failed",
                                from |-> task[c].status, to |-> newStatus]
                    /\ UNCHANGED <<tasks, task>>
    /\ UNCHANGED <<users, comments, rulesDeployed, auditLogs, projVars, now, authVars, pageComments>>

\* a write of the page through updateTask, then setTask({...task, ...data})
SaveThroughUpdateTask(c, op, data) ==
    LET path == DocRef(getTasksPath(defaultOrgId), task[c].id) IN
    /\ accessed' = {path}
    /\ IF RequestAllowed(c) /\ tasks[Key(path)].exists
       THEN /\ tasks' = [tasks EXCEPT ![Key(path)] = updateDoc(@, updateTask(data))]
            /\ task' = [task EXCEPT ![c] = updateDoc(@, data)]
            /\ last' = [op |-> op, outcome |-> "written"]
       ELSE /\ last' = [op |-> op, outcome |-> "failed"]
            /\ UNCHANGED <<tasks, task>>
    /\ UNCHANGED <<users, comments, rulesDeployed, auditLogs, projVars, now, authVars, pageComments>>

\* TaskDetailPage.handleSaveChanges: the edit form is offered to managers
handleSaveChanges(c, title) ==
    /\ user[c] # NoUser
    /\ task[c] # NoDoc
    /\ useIsManager(user[c])
    /\ SaveThroughUpdateTask(c, "saveChanges", [title |-> title])

\* TaskDetailPage.handleAddChecklistItem: offered when canEdit
handleAddChecklistItem(c) ==
    /\ user[c] # NoUser
    /\ task[c] # NoDoc
    /\ useIsManager(user[c]) \/ user[c].id \in task[c].assigneeIds
    /\ Len(task[c].checklistItems) < MaxChecklist
    /\ SaveThroughUpdateTask(c, "checklist",
            [checklistItems |-> Append(task[c].checklistItems, "item")])

\* TaskDetailPage.handleRemoveChecklistItem: offered when canEdit
handleRemoveChecklistItem(c, i) ==
    /\ user[c] # NoUser
    /\ task[c] # NoDoc
    /\ useIsManager(user[c]) \/ user[c].id \in task[c].assigneeIds
    /\ i \in 1..Len(task[c].checklistItems)
    /\ SaveThroughUpdateTask(c, "checklist",
            [checklistItems |-> SubSeq(task[c].checklistItems, 1, i - 1)
                                \o SubSeq(task[c].checklistItems, i + 1,
                                          Len(task[c].checklistItems))])

\* TaskDetailPage.handleAddComment
handleAddComment(c) ==
    LET tid == task[c].id
        path == getCommentsPath(defaultOrgId, tid) IN
    /\ user[c] # NoUser
    /\ task[c] # NoDoc
    /\ Len(comments[<<defaultOrgId, tid>>]) < MaxComments
    /\ accessed' = {path}
    /\ IF RequestAllowed(c)
       THEN /\ comments' = [comments EXCEPT ![<<defaultOrgId, tid>>] = Append(@, user[c].id)]
            /\ pageComments' = [pageComments EXCEPT ![c] = Append(@, user[c].id)]
            /\ last' = [op |-> "addComment", outcome |-> "ok"]
       ELSE /\ last' = [op |-> "addComment", outcome |-> "failed"]
            /\ UNCHANGED <<comments, pageComments>>
    /\ UNCHANGED <<users, tasks, rulesDeployed, auditLogs, projVars, now, authVars, task>>

\* ------------------------------------------------- task specification
\* a manager (c1) and an employee (c2) are signed in with their profiles
\* loaded; the task collection is empty
TaskSessions == [c \in Clients |-> IF c = "c1" THEN "u2" ELSE "u1"]

InitTask ==
    /\ users = SeededUsers
    /\ tasks = [k \in Orgs \X TaskIds |-> NoDoc]
    /\ comments = [k \in Orgs \X TaskIds |-> <<>>]
    /\ rulesDeployed = FALSE
    /\ now = 1
    /\ fbUser = TaskSessions
    /\ user = [c \in Clients |-> AppUser(fbUser[c], users[<<defaultOrgId, fbUser[c]>>])]
    /\ lpc = [c \in Clients |-> "idle"]
    /\ reg = [c \in Clients |-> "none"]
    /\ accounts = Uids
    /\ task = [c \in Clients |-> NoDoc]
    /\ pageComments = [c \in Clients |-> <<>>]
    /\ NoProjects
    /\ accessed = {}
    /\ last = [op |-> "init", outcome |-> "ok"]

NextTask ==
    \/ Tick
    \/ \E c \in Clients, tid \in TaskIds, t \in Titles, a \in AssigneeChoices :
            handleCreateTask(c, tid, [title |-> t, assigneeIds |-> a])
    \/ \E c \in Clients, tid \in TaskIds : handleDeleteTask(c, tid)
    \/ \E c \in Clients, tid \in TaskIds : loadTask(c, tid)
    \/ \E c \in Clients, s \in TaskStatuses : handleStatusChange(c, s)
    \/ \E c \in Clients, t \in Titles : handleSaveChanges(c, t)
    \/ \E c \in Clients : handleAddChecklistItem(c)
    \/ \E c \in Clients, i \in 1..MaxChecklist : handleRemoveChecklistItem(c, i)
    \/ \E c \in Clients : handleAddComment(c)

SpecTask == InitTask /\ [][NextTask]_vars

\* ------------------------------------------------------ user operations
UserKey(uid) == <<defaultOrgId, uid>>
UserRef(uid) == DocRef(getUsersPath(defaultOrgId), uid)

\* String.prototype.toLowerCase on the addresses in use
toLowerCase(email) == IF email = "U1" THEN "u1" ELSE email

\* variant: the profile is written with the admin role
createUser_AsAdmin(orgId, data) ==
    [exists |-> TRUE, used |-> TRUE, orgId |-> orgId,
     email |-> toLowerCase(data.email),
     displayName |-> data.displayName,
     role |-> "admin",
     status |-> "pending",
     managedTeamIds |-> {},
     managedProjectIds |-> {},
     teamIds |-> {},
     projectIds |-> {}]

\* createUser(orgId, userId, data, createdBy): the document it sets
createUser(orgId, data) ==
    [exists |-> TRUE, used |-> TRUE, orgId |-> orgId,
     email |-> toLowerCase(data.email),
     displayName |-> data.displayName,
     role |-> data.role,
     status |-> "pending",
     managedTeamIds |-> {},
     managedProjectIds |-> {},
     teamIds |-> {},
     projectIds |-> {}]

\* signIn on the login page; onAuthChange then starts loadUserData
SignIn(c, uid) ==
    /\ user[c] = NoUser
    /\ lpc[c] = "idle"
    /\ reg[c] = "none"
    /\ ~authCb[c]
    /\ uid \in accounts
    /\ fbUser' = [fbUser EXCEPT ![c] = uid]
    /\ lpc' = [lpc EXCEPT ![c] = "load"]
    /\ accessed' = {}
    /\ last' = [op |-> "signIn", actor |-> uid, outcome |-> "ok"]
    /\ UNCHANGED <<storeVars, rulesDeployed, auditLogs, projVars, now, user, reg, accounts,
                   sessionVars, taskPageVars>>

\* AuthProvider.signOut
SignOut(c) ==
    /\ user[c] # NoUser
    /\ lpc[c] = "idle"
    /\ fbUser' = [fbUser EXCEPT ![c] = "none"]
    /\ user' = [user EXCEPT ![c] = NoUser]
    /\ task' = [task EXCEPT ![c] = NoDoc]
    /\ pageComments' = [pageComments EXCEPT ![c] = <<>>]
    /\ accessed' = {}
    /\ projList' = [projList EXCEPT ![c] = {}]
    /\ teamList' = [teamList EXCEPT ![c] = {}]
    /\ authCb' = [authCb EXCEPT ![c] = TRUE]
    /\ last' = [op |-> "signOut", actor |-> fbUser[c], outcome |-> "ok"]
    /\ UNCHANGED <<storeVars, projects, teams, rulesDeployed, auditLogs, now, lpc, reg, accounts,
                   loading, error>>

\* the app is loaded anew in a signed-in browser: the AuthProvider mounts with
\* user null, and onAuthChange starts loadUserData for the persisted identity
Reload(c) ==
    /\ fbUser[c] # "none"
    /\ lpc[c] = "idle"
    /\ reg[c] = "none"
    /\ ~authCb[c]
    /\ user' = [user EXCEPT ![c] = NoUser]
    /\ loading' = [loading EXCEPT ![c] = TRUE]
    /\ error' = [error EXCEPT ![c] = NoError]
    /\ lpc' = [lpc EXCEPT ![c] = "load"]
    /\ task' = [task EXCEPT ![c] = NoDoc]
    /\ pageComments' = [pageComments EXCEPT ![c] = <<>>]
    /\ projList' = [projList EXCEPT ![c] = {}]
    /\ teamList' = [teamList EXCEPT ![c] = {}]
    /\ accessed' = {}
    /\ last' = [op |-> "reload", actor |-> fbUser[c], outcome |-> "ok"]
    /\ UNCHANGED <<storeVars, projects, teams, rulesDeployed, auditLogs, now, fbUser, reg, accounts,
                   authCb>>

\* RegisterPage.handleSubmit, first part: registerUser creates the identity and
\* signs it in (onAuthChange starts loadUserData); createUser is still to come
Register(c, uid) ==
    /\ user[c] = NoUser
    /\ lpc[c] = "idle"
    /\ reg[c] = "none"
    /\ uid \notin accounts
    /\ ~authCb[c]
    /\ accounts' = accounts \cup {uid}
    /\ fbUser' = [fbUser EXCEPT ![c] = uid]
    /\ lpc' = [lpc EXCEPT ![c] = "load"]
    /\ reg' = [reg EXCEPT ![c] = uid]
    /\ accessed' = {}
    /\ last' = [op |-> "register", actor |-> uid, outcome |-> "ok"]
    /\ UNCHANGED <<storeVars, rulesDeployed, auditLogs, projVars, now, user, sessionVars,
                   taskPageVars>>

\* RegisterPage.handleSubmit, second part: createUser for the new uid
RegisterCreateUser(c) ==
    LET uid == reg[c] IN
    /\ uid # "none"
    /\ reg' = [reg EXCEPT ![c] = "none"]
    /\ accessed' = {UserRef(uid)}
    /\ IF RulesAllow(uid)
       THEN /\ users' = [users EXCEPT ![UserKey(uid)] =
                    createUser(defaultOrgId,
                        [email |-> uid, displayName |-> "A", role |-> "employee"])]
            /\ last' = [op |-> "registerCreate", actor |-> uid, outcome |-> "ok"]
       ELSE /\ users' = users
            /\ last' = [op |-> "registerCreate", actor |-> uid, outcome |-> "failed"]
    /\ UNCHANGED <<tasks, comments, rulesDeployed, auditLogs, projVars, now, fbUser, user, lpc, accounts,
                   sessionVars, taskPageVars>>

\* the messages loadUserData shows through setError
DisabledMessage == "Your account has been disabled. Please contact an administrator."
ConnectivityMessage ==
    "Unable to connect to server. Please check your internet connection and try again."
PermissionMessage == "Permission denied. Please contact administrator."
FailedMessage == "Failed to load user data. Please try again."

\* error messages, held as the sequence of their fragments; String.includes
\* of a fragment is membership in that sequence (case-sensitive)
includes(message, fragment) == \E i \in 1..Len(message) : message[i] = fragment

\* outcomes of the SDK read getUserById: the document, or a thrown error
SdkOk == [ok |-> TRUE, message |-> <<>>]
SdkOffline ==
    [ok |-> FALSE,
     message |-> <<"Failed to get document because the client is ", "offline", ".">>]
SdkInternal == [ok |-> FALSE, message |-> <<"internal error">>]
SdkPermission ==
    [ok |-> FALSE, message |-> <<"Missing or insufficient ", "permission", "s.">>]
SdkResults == {SdkOk, SdkOffline, SdkInternal}

\* outcomes of getDocumentViaRest: the parsed document (or null on 404), the
\* TypeError of a fetch that cannot reach the network, or the error thrown
\* for a response that is not ok
RestOk == [ok |-> TRUE, message |-> <<>>]
RestFetchFailed == [ok |-> FALSE, message |-> <<"Failed to fetch">>]
RestUnavailable ==
    [ok |-> FALSE,
     message |-> <<"Firestore REST API error: 503 - The service is currently ",
                   "unavailable", ".">>]
RestForbidden ==
    [ok |-> FALSE,
     message |-> <<"Firestore REST API error: 403 - Missing or insufficient ",
                   "permission", "s.">>]
RestResults == {RestOk, RestFetchFailed, RestUnavailable}

\* loadUserData: the REST fallback is tried for an offline/unavailable error
UsesFallback(errorMessage) ==
    includes(errorMessage, "offline") \/ includes(errorMessage, "unavailable")

\* loadUserData, outer catch: the message shown for a thrown error
ErrorShown(errorMessage) ==
    IF includes(errorMessage, "offline") \/ includes(errorMessage, "unavailable")
    THEN ConnectivityMessage
    ELSE IF includes(errorMessage, "permission")
    THEN PermissionMessage
    ELSE FailedMessage

\* newUserData of loadUserData, as setDocumentViaRest stores it
newUserData(uid) ==
    [exists |-> TRUE, used |-> TRUE, orgId |-> defaultOrgId,
     email |-> toLowerCase(uid),
     displayName |-> "A",
     role |-> "employee",
     status |-> "active",
     managedTeamIds |-> {},
     managedProjectIds |-> {},
     teamIds |-> {},
     projectIds |-> {}]

\* variant: the disabled check is skipped for admins
IsDisabled_AdminExempt(userData) ==
    userData.status = "disabled" /\ userData.role # "admin"

\* loadUserData: userData.status === 'disabled'
IsDisabled(userData) == userData.status = "disabled"

\* loadUserData(fbUser): getUserById through the SDK, getDocumentViaRest
\* when the SDK is offline, then auto-create when the profile is missing,
\* or the disabled check and setUser when it exists; then setLoading(false)
\* of the onAuthChange callback
loadUserData(c, sdk, rest) ==
    LET uid == fbUser[c]
        sdkResult == IF RulesAllow(uid) THEN sdk ELSE SdkPermission
        fallback == ~sdkResult.ok /\ UsesFallback(sdkResult.message)
        usedRestApi == fallback /\ rest.ok
        thrown == IF sdkResult.ok \/ usedRestApi THEN <<>>
                  ELSE IF fallback THEN rest.message ELSE sdkResult.message
        userData == users[UserKey(uid)]
    IN
    /\ lpc[c] = "load"
    /\ accessed' = {UserRef(uid)}
    /\ IF thrown # <<>>
       THEN \* catch: setError(...); setUser(null)
            /\ user' = [user EXCEPT ![c] = NoUser]
            /\ error' = [error EXCEPT ![c] = ErrorShown(thrown)]
            /\ loading' = [loading EXCEPT ![c] = FALSE]
            /\ lpc' = [lpc EXCEPT ![c] = "idle"]
            /\ last' = [op |-> "loadProfile", actor |-> uid, outcome |-> "failed",
                        sdk |-> sdkResult, rest |-> rest, fallback |-> fallback]
            /\ UNCHANGED <<users, fbUser, authCb>>
       ELSE IF ~userData.exists /\ usedRestApi
       THEN \* auto-create: the SDK create fails, setDocumentViaRest(newUserData)
            /\ users' = [users EXCEPT ![UserKey(uid)] = newUserData(uid)]
            /\ user' = [user EXCEPT ![c] = AppUser(uid, newUserData(uid))]
            /\ error' = [error EXCEPT ![c] = NoError]
            /\ loading' = [loading EXCEPT ![c] = FALSE]
            /\ lpc' = [lpc EXCEPT ![c] = "idle"]
            /\ last' = [op |-> "autoCreate", actor |-> uid, outcome |-> "ok"]
            /\ UNCHANGED <<fbUser, authCb>>
       ELSE IF ~userData.exists
       THEN \* auto-create: createUser (status pending); the activation follows
            /\ users' = [users EXCEPT ![UserKey(uid)] =
                    createUser(defaultOrgId,
                        [email |-> uid, displayName |-> "A", role |-> "employee"])]
            /\ lpc' = [lpc EXCEPT ![c] = "created"]
            /\ last' = [op |-> "autoCreate", actor |-> uid, outcome |-> "ok"]
            /\ UNCHANGED <<user, fbUser, sessionVars>>
       ELSE IF IsDisabled(userData)
       THEN \* setError(disabled); await firebaseSignOut(); setUser(null)
            /\ user' = [user EXCEPT ![c] = NoUser]
            /\ error' = [error EXCEPT ![c] = DisabledMessage]
            /\ fbUser' = [fbUser EXCEPT ![c] = "none"]
            /\ authCb' = [authCb EXCEPT ![c] = TRUE]
            /\ loading' = [loading EXCEPT ![c] = FALSE]
            /\ lpc' = [lpc EXCEPT ![c] = "idle"]
            /\ last' = [op |-> "loadProfile", actor |-> uid, outcome |-> "disabled",
                        sdk |-> sdkResult, rest |-> rest, fallback |-> fallback]
            /\ UNCHANGED users
       ELSE \* setUser(appUser); setError(null)
            /\ user' = [user EXCEPT ![c] = AppUser(uid, userData)]
            /\ error' = [error EXCEPT ![c] = NoError]
            /\ loading' = [loading EXCEPT ![c] = FALSE]
            /\ lpc' = [lpc EXCEPT ![c] = "idle"]
            /\ last' = [op |-> "loadProfile", actor |-> uid, outcome |-> "ok",
                        sdk |-> sdkResult, rest |-> rest, fallback |-> fallback]
            /\ UNCHANGED <<users, fbUser, authCb>>
    /\ UNCHANGED <<tasks, comments, rulesDeployed, auditLogs, projVars, now, reg, accounts, taskPageVars>>

\* loadUserData with the store reachable through the SDK
LoadProfile(c) == loadUserData(c, SdkOk, RestOk)

\* loadUserData after the auto-create: updateUser(uid, { status: 'active' }),
\* userData.status = 'active', setUser; REST fallback when the update fails
ActivateCreated(c) ==
    LET uid == fbUser[c]
        created == createUser(defaultOrgId,
                        [email |-> uid, displayName |-> "A", role |-> "employee"])
    IN
    /\ lpc[c] = "created"
    /\ lpc' = [lpc EXCEPT ![c] = "idle"]
    /\ loading' = [loading EXCEPT ![c] = FALSE]
    /\ accessed' = {UserRef(uid)}
    /\ IF RulesAllow(uid)
       THEN /\ users' = [users EXCEPT ![UserKey(uid)] =
                    IF @.exists THEN updateDoc(@, [status |-> "active"])
                    ELSE updateDoc(created, [status |-> "active"])]
            /\ user' = [user EXCEPT ![c] = AppUser(uid, [created EXCEPT !.status = "active"])]
            /\ error' = [error EXCEPT ![c] = NoError]
            /\ last' = [op |-> "activate", actor |-> uid, outcome |-> "ok"]
       ELSE \* updateUser and setDocumentViaRest are both refused
            /\ user' = [user EXCEPT ![c] = NoUser]
            /\ error' = [error EXCEPT ![c] = ErrorShown(RestForbidden.message)]
            /\ last' = [op |-> "activate", actor |-> uid, outcome |-> "failed"]
            /\ UNCHANGED users
    /\ UNCHANGED <<tasks, comments, rulesDeployed, auditLogs, projVars, now, fbUser, reg, accounts,
                   authCb, taskPageVars>>

\* the onAuthChange callback for a signed-out state: setFirebaseUser(null),
\* setUser(null), setError(null), setLoading(false)
onAuthChangeNull(c) ==
    /\ authCb[c]
    /\ authCb' = [authCb EXCEPT ![c] = FALSE]
    /\ user' = [user EXCEPT ![c] = NoUser]
    /\ error' = [error EXCEPT ![c] = NoError]
    /\ loading' = [loading EXCEPT ![c] = FALSE]
    /\ accessed' = {}
    /\ last' = [op |-> "authChange", actor |-> "none", outcome |-> "ok"]
    /\ UNCHANGED <<storeVars, rulesDeployed, auditLogs, projVars, now, fbUser, lpc, reg, accounts,
                   taskPageVars>>

\* SettingsPage.handleSaveProfile: updateUser(user.id, { displayName }), refreshUser
handleSaveProfile(c, name) ==
    /\ user[c] # NoUser
    /\ lpc[c] = "idle"
    /\ accessed' = {UserRef(user[c].id)}
    /\ IF RequestAllowed(c) /\ users[UserKey(user[c].id)].exists
       THEN /\ users' = [users EXCEPT ![UserKey(user[c].id)] =
                            updateDoc(@, [displayName |-> name])]
            /\ lpc' = [lpc EXCEPT ![c] = "load"]
            /\ last' = [op |-> "saveProfile", actor |-> user[c].id, name |-> name,
                        outcome |-> "ok"]
       ELSE /\ last' = [op |-> "saveProfile", actor |-> user[c].id, name |-> name,
                        outcome |-> "failed"]
            /\ UNCHANGED <<users, lpc>>
    /\ UNCHANGED <<tasks, comments, rulesDeployed, auditLogs, projVars, now, fbUser, user, reg, accounts,
                   sessionVars, taskPageVars>>

\* UsersPage.loadUsers: runs on mount for every signed-in user
loadUsers(c) ==
    /\ user[c] # NoUser
    /\ accessed' = {getUsersPath(defaultOrgId)}
    /\ last' = [op |-> "loadUsers", actor |-> user[c].id,
                outcome |-> IF RequestAllowed(c) THEN "ok" ELSE "failed"]
    /\ UNCHANGED <<storeVars, rulesDeployed, auditLogs, projVars, now, authVars, taskPageVars>>

\* variant: the menu is rendered on the own card as well
MenuOffered_OwnCardToo(currentUserId, target) == TRUE

\* UserCard: the role/status menu is rendered for every card but the own one
MenuOffered(currentUserId, target) == target # currentUserId

\* a write of the users page to the profile of `target`
AdminWrite(c, op, target, updateData) ==
    /\ useIsAdmin(user[c])
    /\ users[UserKey(target)].exists
    /\ MenuOffered(user[c].id, target)
    /\ accessed' = {UserRef(target)}
    /\ IF RequestAllowed(c)
       THEN /\ users' = [users EXCEPT ![UserKey(target)] = updateDoc(@, updateData)]
            /\ last' = [op |-> op, actor |-> user[c].id, target |-> target, outcome |-> "ok"]
       ELSE /\ users' = users
            /\ last' = [op |-> op, actor |-> user[c].id, target |-> target,
                        outcome |-> "failed"]
    /\ UNCHANGED <<tasks, comments, rulesDeployed, auditLogs, projVars, now, authVars, taskPageVars>>

\* UsersPage.handleInviteUser: createUser under a generated temporary id,
\* then sendInviteEmail (whose failure leaves the profile in place)
handleInviteUser(c, tempUserId, email, mailOk) ==
    /\ useIsAdmin(user[c])
    /\ users[UserKey(tempUserId)] = NoDoc
    /\ accessed' = {UserRef(tempUserId)}
    /\ IF RequestAllowed(c)
       THEN /\ users' = [users EXCEPT ![UserKey(tempUserId)] =
                    createUser(defaultOrgId,
                        [email |-> email, displayName |-> "A", role |-> "employee"])]
            /\ last' = [op |-> "invite", actor |-> user[c].id, target |-> tempUserId,
                        outcome |-> IF mailOk THEN "ok" ELSE "failed"]
       ELSE /\ users' = users
            /\ last' = [op |-> "invite", actor |-> user[c].id, target |-> tempUserId,
                        outcome |-> "failed"]
    /\ UNCHANGED <<tasks, comments, rulesDeployed, auditLogs, projVars, now, authVars,
                   taskPageVars>>

\* UsersPage.handleToggleUserStatus: activateUser / disableUser
handleToggleUserStatus(c, target) ==
    AdminWrite(c, "toggleStatus", target,
        IF users[UserKey(target)].status = "disabled"
        THEN [status |-> "active"] ELSE [status |-> "disabled"])

\* UsersPage.handleChangeRole
handleChangeRole(c, target, newRole) ==
    AdminWrite(c, "changeRole", target, [role |-> newRole])

\* ------------------------------------------------- user specifications
\* the person at each client: the admin u3 at c1, the newcomer u1 at c2
UserDesk == [c \in Clients |-> IF c = "c1" THEN "u3" ELSE "u1"]

\* the admin u3 exists; u1 has not registered; nobody is signed in
InitUser ==
    /\ users = [k \in Orgs \X UserIds |->
                    IF k[2] = "u3" THEN SeededUsers[k] ELSE NoDoc]
    /\ tasks = [k \in Orgs \X TaskIds |-> NoDoc]
    /\ comments = [k \in Orgs \X TaskIds |-> <<>>]
    /\ rulesDeployed = FALSE
    /\ now = 1
    /\ fbUser = [c \in Clients |-> "none"]
    /\ user = [c \in Clients |-> NoUser]
    /\ lpc = [c \in Clients |-> "idle"]
    /\ reg = [c \in Clients |-> "none"]
    /\ accounts = {"u3"}
    /\ task = [c \in Clients |-> NoDoc]
    /\ pageComments = [c \in Clients |-> <<>>]
    /\ NoProjects
    /\ accessed = {}
    /\ last = [op |-> "init", outcome |-> "ok"]

SessionNext(desk) ==
    \/ \E c \in Clients : SignIn(c, desk[c])
    \/ \E c \in Clients : SignOut(c)
    \/ \E c \in Clients : onAuthChangeNull(c)
    \/ \E c \in Clients : LoadProfile(c)
    \/ \E c \in Clients, n \in Names : handleSaveProfile(c, n)
    \/ \E c \in Clients : loadUsers(c)
    \/ \E c \in Clients, u \in Uids : handleToggleUserStatus(c, u)

NextUser ==
    \/ SessionNext(UserDesk)
    \/ \E c \in Clients : Register(c, UserDesk[c])
    \/ \E c \in Clients : RegisterCreateUser(c)
    \/ \E c \in Clients : ActivateCreated(c)
    \/ \E c \in Clients, u \in Uids, r \in Roles : handleChangeRole(c, u, r)

SpecUser == InitUser /\ [][NextUser]_vars

\* variant: the layout renders the page without waiting for a user
DashboardLayout_NoUserCheck(c) ==
    IF loading[c] THEN "PageLoader"
    ELSE IF error[c] # NoError THEN "AccessDenied"
    ELSE "children"

\* DashboardLayout: what the layout returns for the auth state of client c
DashboardLayout(c) ==
    IF loading[c] THEN "PageLoader"
    ELSE IF error[c] # NoError THEN "AccessDenied"
    ELSE IF user[c] = NoUser THEN "PageLoader"
    ELSE "children"

\* DashboardLayout, effect on [user, loading]: router.push('/login')
RedirectsToLogin(c) == ~loading[c] /\ user[c] = NoUser

\* the session of the AuthProvider with an unreliable transport: sign-in,
\* reload, loadUserData over the SDK and the REST fallback, the sign-out
\* notification, next to the admin's changes of role and status
NextAuth ==
    \/ \E c \in Clients : SignIn(c, UserDesk[c])
    \/ \E c \in Clients : SignOut(c)
    \/ \E c \in Clients : onAuthChangeNull(c)
    \/ \E c \in Clients : Reload(c)
    \/ \E c \in Clients : Register(c, UserDesk[c])
    \/ \E c \in Clients : RegisterCreateUser(c)
    \/ \E c \in Clients, sdk \in SdkResults, rest \in RestResults : loadUserData(c, sdk, rest)
    \/ \E c \in Clients : ActivateCreated(c)
    \/ \E c \in Clients, u \in Uids : handleToggleUserStatus(c, u)
    \/ \E c \in Clients, u \in Uids, r \in Roles : handleChangeRole(c, u, r)

SpecAuth == InitUser /\ [][NextAuth]_vars

\* invitations by the admin next to the newcomer's registration and sign-in
NextInvite ==
    \/ \E c \in Clients : SignIn(c, UserDesk[c])
    \/ \E c \in Clients : SignOut(c)
    \/ \E c \in Clients : onAuthChangeNull(c)
    \/ \E c \in Clients : Register(c, UserDesk[c])
    \/ \E c \in Clients : RegisterCreateUser(c)
    \/ \E c \in Clients : LoadProfile(c)
    \/ \E c \in Clients : ActivateCreated(c)
    \/ \E c \in Clients, n \in Names : handleSaveProfile(c, n)
    \/ \E c \in Clients, i \in InviteIds, e \in InviteEmails, ok \in BOOLEAN :
            handleInviteUser(c, i, e, ok)

SpecInvite == InitUser /\ [][NextInvite]_vars

\* the deployment with firestore.rules in force: two admins, u3 at c1 and
\* u2 at c2, and the employee u1
RulesDesk == [c \in Clients |-> IF c = "c1" THEN "u3" ELSE "u2"]

InitRules ==
    /\ users = [k \in Orgs \X UserIds |->
                    IF k = UserKey("u2") THEN [SeededUsers[k] EXCEPT !.role = "admin"]
                    ELSE SeededUsers[k]]
    /\ tasks = [k \in Orgs \X TaskIds |-> NoDoc]
    /\ comments = [k \in Orgs \X TaskIds |-> <<>>]
    /\ rulesDeployed = TRUE
    /\ now = 1
    /\ fbUser = [c \in Clients |-> "none"]
    /\ user = [c \in Clients |-> NoUser]
    /\ lpc = [c \in Clients |-> "idle"]
    /\ reg = [c \in Clients |-> "none"]
    /\ accounts = Uids
    /\ task = [c \in Clients |-> NoDoc]
    /\ pageComments = [c \in Clients |-> <<>>]
    /\ NoProjects
    /\ accessed = {}
    /\ last = [op |-> "init", outcome |-> "ok"]

NextRules ==
    \/ SessionNext(RulesDesk)
    \/ \E c \in Clients, u \in Uids, r \in Roles : handleChangeRole(c, u, r)

SpecRules == InitRules /\ [][NextRules]_vars

\* ------------------------------------------- project and team operations
ProjKey(pid) == <<defaultOrgId, pid>>
TeamKey(tid) == <<defaultOrgId, tid>>

\* createProject / createTeam: the document set (setDoc)
createProject(orgId, data, createdBy) ==
    [exists |-> TRUE, used |-> TRUE, orgId |-> orgId,
     managerIds |-> data.managerIds, memberIds |-> data.memberIds,
     createdBy |-> createdBy]

createTeam(orgId, data, createdBy) ==
    [exists |-> TRUE, used |-> TRUE, orgId |-> orgId,
     managerIds |-> data.managerIds, memberIds |-> data.memberIds,
     createdBy |-> createdBy]

\* the forms a project or team is created and edited with
EntityForms ==
    {[managerIds |-> m, memberIds |-> e] : m \in ManagerChoices, e \in MemberChoices}

\* variant: the back-reference is written to every profile
BackRefs_Everyone(store, field, ids, id) ==
    [k \in DOMAIN store |->
        IF store[k].exists THEN [store[k] EXCEPT ![field] = @ \cup {id}] ELSE store[k]]

\* batch.update(userRef, { [field]: arrayUnion(id) }) for every user in ids
BackRefs(store, field, ids, id) ==
    [k \in DOMAIN store |->
        IF k[1] = defaultOrgId /\ k[2] \in ids
        THEN [store[k] EXCEPT ![field] = @ \cup {id}]
        ELSE store[k]]

\* the batch of createProject: members' projectIds, managers' managedProjectIds
projectBatch(data, id) ==
    BackRefs(BackRefs(users, "projectIds", data.memberIds, id),
             "managedProjectIds", data.managerIds, id)

\* the batch of createTeam: members' teamIds, managers' managedTeamIds
teamBatch(data, id) ==
    BackRefs(BackRefs(users, "teamIds", data.memberIds, id),
             "managedTeamIds", data.managerIds, id)

\* batch.update fails the whole commit when a listed profile does not exist
batchTargetsExist(data) ==
    \A m \in data.managerIds \cup data.memberIds : users[UserKey(m)].exists

\* getProjects(orgId, { managerId }) / getProjects(orgId, {}) as the page calls it
ListedProjects(u, store) ==
    {pid \in ProjIds :
        /\ store[ProjKey(pid)].exists
        /\ (useIsAdmin(u) \/ u.id \in store[ProjKey(pid)].managerIds)}

\* getTeams(orgId, managerId) / getTeams(orgId) as the page calls it
ListedTeams(u, store) ==
    {tid \in TeamIds :
        /\ store[TeamKey(tid)].exists
        /\ (useIsAdmin(u) \/ u.id \in store[TeamKey(tid)].managerIds)}

\* ProjectsPage.loadData
loadProjects(c) ==
    /\ user[c] # NoUser
    /\ accessed' = {getProjectsPath(defaultOrgId), getUsersPath(defaultOrgId),
                    getTeamsPath(defaultOrgId)}
    /\ IF RequestAllowed(c)
       THEN /\ projList' = [projList EXCEPT ![c] = ListedProjects(user[c], projects)]
            /\ last' = [op |-> "loadProjects", actor |-> user[c].id, outcome |-> "ok"]
       ELSE /\ projList' = projList
            /\ last' = [op |-> "loadProjects", actor |-> user[c].id, outcome |-> "failed"]
    /\ UNCHANGED <<storeVars, projects, teams, teamList, rulesDeployed, auditLogs, now, authVars,
                   taskPageVars>>

\* ProjectsPage.handleCreateProject: createProject (setDoc, then the batch of
\* back-references, which may fail on its own), then loadData
handleCreateProject(c, pid, data, batchOk) ==
    LET k == ProjKey(pid)
        created == [projects EXCEPT ![k] =
                        createProject(defaultOrgId, data, user[c].id)]
    IN
    /\ useIsManager(user[c])
    /\ projects[k] = NoDoc
    /\ accessed' = {DocRef(getProjectsPath(defaultOrgId), pid)}
                        \cup {UserRef(m) : m \in data.managerIds \cup data.memberIds}
    /\ IF ~RequestAllowed(c)
       THEN /\ last' = [op |-> "createProject", actor |-> user[c].id, id |-> pid,
                        outcome |-> "failed"]
            /\ UNCHANGED <<users, projects, projList>>
       ELSE /\ projects' = created
            /\ IF batchOk /\ batchTargetsExist(data)
               THEN /\ users' = projectBatch(data, pid)
                    /\ projList' = [projList EXCEPT ![c] = ListedProjects(user[c], created)]
                    /\ last' = [op |-> "createProject", actor |-> user[c].id, id |-> pid,
                                outcome |-> "ok"]
               ELSE /\ last' = [op |-> "createProject", actor |-> user[c].id, id |-> pid,
                                outcome |-> "failed"]
                    /\ UNCHANGED <<users, projList>>
    /\ UNCHANGED <<tasks, comments, teams, teamList, rulesDeployed, auditLogs, now, authVars,
                   taskPageVars>>

\* ProjectsPage.handleUpdateProject from the edit form of a listed project
\* (onEdit is set when isManager): updateProject, then loadData
handleUpdateProject(c, pid, data) ==
    LET k == ProjKey(pid)
        updated == [projects EXCEPT ![k] = updateDoc(@, data)]
    IN
    /\ useIsManager(user[c])
    /\ pid \in projList[c]
    /\ accessed' = {DocRef(getProjectsPath(defaultOrgId), pid)}
    /\ IF RequestAllowed(c) /\ projects[k].exists
       THEN /\ projects' = updated
            /\ projList' = [projList EXCEPT ![c] = ListedProjects(user[c], updated)]
            /\ last' = [op |-> "updateProject", actor |-> user[c].id, id |-> pid,
                        outcome |-> "ok"]
       ELSE /\ last' = [op |-> "updateProject", actor |-> user[c].id, id |-> pid,
                        outcome |-> "failed"]
            /\ UNCHANGED <<projects, projList>>
    /\ UNCHANGED <<storeVars, teams, teamList, rulesDeployed, auditLogs, now, authVars,
                   taskPageVars>>

\* ProjectsPage.handleDeleteProject (onDelete is set when isAdmin)
handleDeleteProject(c, pid) ==
    LET k == ProjKey(pid)
        deleted == [projects EXCEPT ![k] = Gone]
    IN
    /\ useIsAdmin(user[c])
    /\ pid \in projList[c]
    /\ accessed' = {DocRef(getProjectsPath(defaultOrgId), pid)}
    /\ IF RequestAllowed(c)
       THEN /\ projects' = deleted
            /\ projList' = [projList EXCEPT ![c] = ListedProjects(user[c], deleted)]
            /\ last' = [op |-> "deleteProject", actor |-> user[c].id, id |-> pid,
                        outcome |-> "ok"]
       ELSE /\ last' = [op |-> "deleteProject", actor |-> user[c].id, id |-> pid,
                        outcome |-> "failed"]
            /\ UNCHANGED <<projects, projList>>
    /\ UNCHANGED <<storeVars, teams, teamList, rulesDeployed, auditLogs, now, authVars,
                   taskPageVars>>

\* TeamsPage.loadData
loadTeams(c) ==
    /\ user[c] # NoUser
    /\ accessed' = {getTeamsPath(defaultOrgId), getUsersPath(defaultOrgId)}
    /\ IF RequestAllowed(c)
       THEN /\ teamList' = [teamList EXCEPT ![c] = ListedTeams(user[c], teams)]
            /\ last' = [op |-> "loadTeams", actor |-> user[c].id, outcome |-> "ok"]
       ELSE /\ teamList' = teamList
            /\ last' = [op |-> "loadTeams", actor |-> user[c].id, outcome |-> "failed"]
    /\ UNCHANGED <<storeVars, projects, teams, projList, rulesDeployed, auditLogs, now, authVars,
                   taskPageVars>>

\* variant: the team document and the back-references are written in one
\* transaction, so a failing batch leaves no team behind
handleCreateTeam_Atomic(c, tid, data, batchOk) ==
    LET k == TeamKey(tid)
        created == [teams EXCEPT ![k] =
                        createTeam(defaultOrgId, data, user[c].id)]
    IN
    /\ useIsAdmin(user[c])
    /\ teams[k] = NoDoc
    /\ accessed' = {DocRef(getTeamsPath(defaultOrgId), tid)}
                        \cup {UserRef(m) : m \in data.managerIds \cup data.memberIds}
    /\ IF RequestAllowed(c) /\ batchOk /\ batchTargetsExist(data)
       THEN /\ teams' = created
            /\ users' = teamBatch(data, tid)
            /\ teamList' = [teamList EXCEPT ![c] = ListedTeams(user[c], created)]
            /\ last' = [op |-> "createTeam", actor |-> user[c].id, id |-> tid,
                        outcome |-> "ok"]
       ELSE /\ last' = [op |-> "createTeam", actor |-> user[c].id, id |-> tid,
                        outcome |-> "failed"]
            /\ UNCHANGED <<users, teams, teamList>>
    /\ UNCHANGED <<tasks, comments, projects, projList, rulesDeployed, auditLogs, now, authVars,
                   taskPageVars>>

\* TeamsPage.handleCreateTeam (the button is rendered when isAdmin)
handleCreateTeam(c, tid, data, batchOk) ==
    LET k == TeamKey(tid)
        created == [teams EXCEPT ![k] =
                        createTeam(defaultOrgId, data, user[c].id)]
    IN
    /\ useIsAdmin(user[c])
    /\ teams[k] = NoDoc
    /\ accessed' = {DocRef(getTeamsPath(defaultOrgId), tid)}
                        \cup {UserRef(m) : m \in data.managerIds \cup data.memberIds}
    /\ IF ~RequestAllowed(c)
       THEN /\ last' = [op |-> "createTeam", actor |-> user[c].id, id |-> tid,
                        outcome |-> "failed"]
            /\ UNCHANGED <<users, teams, teamList>>
       ELSE /\ teams' = created
            /\ IF batchOk /\ batchTargetsExist(data)
               THEN /\ users' = teamBatch(data, tid)
                    /\ teamList' = [teamList EXCEPT ![c] = ListedTeams(user[c], created)]
                    /\ last' = [op |-> "createTeam", actor |-> user[c].id, id |-> tid,
                                outcome |-> "ok"]
               ELSE /\ last' = [op |-> "createTeam", actor |-> user[c].id, id |-> tid,
                                outcome |-> "failed"]
                    /\ UNCHANGED <<users, teamList>>
    /\ UNCHANGED <<tasks, comments, projects, projList, rulesDeployed, auditLogs, now, authVars,
                   taskPageVars>>

\* TeamsPage.handleUpdateTeam (onEdit is set when isAdmin)
handleUpdateTeam(c, tid, data) ==
    LET k == TeamKey(tid)
        updated == [teams EXCEPT ![k] = updateDoc(@, data)]
    IN
    /\ useIsAdmin(user[c])
    /\ tid \in teamList[c]
    /\ accessed' = {DocRef(getTeamsPath(defaultOrgId), tid)}
    /\ IF RequestAllowed(c) /\ teams[k].exists
       THEN /\ teams' = updated
            /\ teamList' = [teamList EXCEPT ![c] = ListedTeams(user[c], updated)]
            /\ last' = [op |-> "updateTeam", actor |-> user[c].id, id |-> tid,
                        outcome |-> "ok"]
       ELSE /\ last' = [op |-> "updateTeam", actor |-> user[c].id, id |-> tid,
                        outcome |-> "failed"]
            /\ UNCHANGED <<teams, teamList>>
    /\ UNCHANGED <<storeVars, projects, projList, rulesDeployed, auditLogs, now, authVars,
                   taskPageVars>>

\* TeamsPage.handleDeleteTeam (onDelete is set when isAdmin)
handleDeleteTeam(c, tid) ==
    LET k == TeamKey(tid)
        deleted == [teams EXCEPT ![k] = Gone]
    IN
    /\ useIsAdmin(user[c])
    /\ tid \in teamList[c]
    /\ accessed' = {DocRef(getTeamsPath(defaultOrgId), tid)}
    /\ IF RequestAllowed(c)
       THEN /\ teams' = deleted
            /\ teamList' = [teamList EXCEPT ![c] = ListedTeams(user[c], deleted)]
            /\ last' = [op |-> "deleteTeam", actor |-> user[c].id, id |-> tid,
                        outcome |-> "ok"]
       ELSE /\ last' = [op |-> "deleteTeam", actor |-> user[c].id, id |-> tid,
                        outcome |-> "failed"]
            /\ UNCHANGED <<teams, teamList>>
    /\ UNCHANGED <<storeVars, projects, projList, rulesDeployed, auditLogs, now, authVars,
                   taskPageVars>>

\* ---------------------------------------------- project specification
\* the admin u3 at c1; the manager u2 or the employee u1 at c2; both signed in
InitProj ==
    /\ users = SeededUsers
    /\ tasks = [k \in Orgs \X TaskIds |-> NoDoc]
    /\ comments = [k \in Orgs \X TaskIds |-> <<>>]
    /\ rulesDeployed = FALSE
    /\ now = 1
    /\ fbUser \in {[c \in Clients |-> IF c = "c1" THEN "u3" ELSE u] : u \in {"u1", "u2"}}
    /\ user = [c \in Clients |-> AppUser(fbUser[c], users[UserKey(fbUser[c])])]
    /\ lpc = [c \in Clients |-> "idle"]
    /\ reg = [c \in Clients |-> "none"]
    /\ accounts = Uids
    /\ task = [c \in Clients |-> NoDoc]
    /\ pageComments = [c \in Clients |-> <<>>]
    /\ NoProjects
    /\ accessed = {}
    /\ last = [op |-> "init", outcome |-> "ok"]

NextProj ==
    \/ \E c \in Clients : loadProjects(c)
    \/ \E c \in Clients, pid \in ProjIds, d \in EntityForms, ok \in BOOLEAN :
            handleCreateProject(c, pid, d, ok)
    \/ \E c \in Clients, pid \in ProjIds, d \in EntityForms :
            handleUpdateProject(c, pid, d)
    \/ \E c \in Clients, pid \in ProjIds : handleDeleteProject(c, pid)
    \/ \E c \in Clients : loadTeams(c)
    \/ \E c \in Clients, tid \in TeamIds, d \in EntityForms, ok \in BOOLEAN :
            handleCreateTeam(c, tid, d, ok)
    \/ \E c \in Clients, tid \in TeamIds, d \in EntityForms :
            handleUpdateTeam(c, tid, d)
    \/ \E c \in Clients, tid \in TeamIds : handleDeleteTeam(c, tid)
    \/ \E c \in Clients : Reload(c)
    \/ \E c \in Clients : LoadProfile(c)

SpecProj == InitProj /\ [][NextProj]_vars

\* ------------------------------------------ organisation specification
\* the app has just been opened at both clients: by the admin u3 at c1, who
\* goes on to the projects and teams pages, and at c2 by the manager u2, or
\* by u1 who has no profile yet, who goes on to the tasks pages
InitOrg ==
    /\ users = [k \in Orgs \X UserIds |-> IF k[2] = "u1" THEN NoDoc ELSE SeededUsers[k]]
    /\ tasks = [k \in Orgs \X TaskIds |-> NoDoc]
    /\ comments = [k \in Orgs \X TaskIds |-> <<>>]
    /\ rulesDeployed = FALSE
    /\ now = 1
    /\ fbUser \in {[c \in Clients |-> IF c = "c1" THEN "u3" ELSE u] : u \in {"u1", "u2"}}
    /\ user = [c \in Clients |-> NoUser]
    /\ lpc = [c \in Clients |-> "load"]
    /\ reg = [c \in Clients |-> "none"]
    /\ accounts = Uids
    /\ task = [c \in Clients |-> NoDoc]
    /\ pageComments = [c \in Clients |-> <<>>]
    /\ NoProjects
    /\ accessed = {}
    /\ last = [op |-> "init", outcome |-> "ok"]

NextOrg ==
    \/ \E c \in Clients : LoadProfile(c)
    \/ \E c \in Clients : ActivateCreated(c)
    \/ \E c \in Clients : loadUsers(c)
    \/ loadProjects("c1")
    \/ \E pid \in ProjIds, m \in ManagerChoices : handleCreateProject("c1", pid, [managerIds |-> m, memberIds |-> {}], TRUE)
    \/ \E pid \in ProjIds, m \in ManagerChoices : handleUpdateProject("c1", pid, [managerIds |-> m, memberIds |-> {}])
    \/ \E pid \in ProjIds : handleDeleteProject("c1", pid)
    \/ loadTeams("c1")
    \/ \E tid \in TeamIds, m \in ManagerChoices : handleCreateTeam("c1", tid, [managerIds |-> m, memberIds |-> {}], TRUE)
    \/ \E tid \in TeamIds, m \in ManagerChoices : handleUpdateTeam("c1", tid, [managerIds |-> m, memberIds |-> {}])
    \/ \E tid \in TeamIds : handleDeleteTeam("c1", tid)
    \/ \E c \in Clients, tid \in TaskIds, a \in AssigneeChoices :
            handleCreateTask(c, tid, [title |-> "A", assigneeIds |-> a])
    \/ \E c \in Clients, tid \in TaskIds : handleDeleteTask(c, tid)
    \/ \E tid \in TaskIds : loadTask("c2", tid)
    \/ \E s \in TaskStatuses : handleStatusChange("c2", s)
    \/ handleAddComment("c2")

SpecOrg == InitOrg /\ [][NextOrg]_vars

\* --------------------------------------------------- audit log operations
\* the entries callers may hand to createAuditLog; changes, a map from field
\* name to { before, after }, is held as a set of <<field, before, after>>
AuditData ==
    {[actorId |-> "u2", actorEmail |-> "u2", actionType |-> "task_created",
      entityType |-> "task", entityId |-> "t1", changes |-> {}],
     [actorId |-> "u3", actorEmail |-> "u3", actionType |-> "user_disabled",
      entityType |-> "user", entityId |-> "u1",
      changes |-> {<<"status", "active", "disabled">>}]}

\* variant: the entry is written to the document a1, whatever it holds
AuditLogRef_Fixed(store) == {"a1"}

\* doc(collection(db, getAuditLogsPath(orgId))): a document id not used before
AuditLogRef(store) == {id \in LogIds : store[<<defaultOrgId, id>>] = NoDoc}

\* createAuditLog(orgId, data): setDoc of { ...data, orgId, createdAt }; the
\* function is exported by the store module and called by no page
createAuditLog(data) ==
    \E id \in AuditLogRef(auditLogs) :
        /\ auditLogs' = [auditLogs EXCEPT ![<<defaultOrgId, id>>] =
                [exists |-> TRUE, used |-> TRUE, orgId |-> defaultOrgId,
                 actorId |-> data.actorId, actorEmail |-> data.actorEmail,
                 actionType |-> data.actionType, entityType |-> data.entityType,
                 entityId |-> data.entityId, changes |-> data.changes,
                 createdAt |-> now]]
        /\ accessed' = {DocRef(getAuditLogsPath(defaultOrgId), id)}
        /\ last' = [op |-> "createAuditLog", actor |-> data.actorId, id |-> id,
                    outcome |-> "ok"]
        /\ UNCHANGED <<storeVars, projVars, rulesDeployed, now, authVars, taskPageVars>>

\* AuditLogsPage.loadData: getAuditLogs and getUsers, for admins
loadAuditLogs(c) ==
    /\ useIsAdmin(user[c])
    /\ accessed' = {getAuditLogsPath(defaultOrgId), getUsersPath(defaultOrgId)}
    /\ last' = [op |-> "loadAuditLogs", actor |-> user[c].id,
                outcome |-> IF RequestAllowed(c) THEN "ok" ELSE "failed"]
    /\ UNCHANGED <<storeVars, projVars, auditLogs, rulesDeployed, now, authVars,
                   taskPageVars>>

\* ------------------------------------------------ audit specification
\* the store module's audit functions next to the handlers that mutate
\* users, tasks and projects; the admin u3 at c1, u2 or u1 at c2
NextAudit ==
    \/ Tick
    \/ \E d \in AuditData : createAuditLog(d)
    \/ \E c \in Clients : loadAuditLogs(c)
    \/ \E c \in Clients, tid \in TaskIds :
            handleCreateTask(c, tid, [title |-> "A", assigneeIds |-> {}])
    \/ \E c \in Clients, tid \in TaskIds : handleDeleteTask(c, tid)
    \/ \E c \in Clients, u \in Uids : handleToggleUserStatus(c, u)
    \/ \E c \in Clients, pid \in ProjIds :
            handleCreateProject(c, pid, [managerIds |-> {}, memberIds |-> {}], TRUE)
    \/ \E c \in Clients : loadProjects(c)
    \/ \E c \in Clients, pid \in ProjIds : handleDeleteProject(c, pid)

SpecAudit == InitProj /\ [][NextAudit]_vars

\* ------------------------------------------------- REST codec (firestore-rest)
\* JavaScript values, tagged with what typeof / instanceof / Array.isArray
\* tell apart.  A number is the value +-(m * 10^e + frac / 10); JsNumber(m, e)
\* is the integral value m * 10^e, JsDecimal(neg, m, frac) is +-(m + frac / 10).
JsNull == [t |-> "null"]
JsString(str) == [t |-> "string", s |-> str]
JsNumber(m, e) == [t |-> "number", neg |-> FALSE, m |-> m, e |-> e, frac |-> 0]
JsDecimal(neg, m, frac) == [t |-> "number", neg |-> neg, m |-> m, e |-> 0, frac |-> frac]
JsNaN == [t |-> "number", nan |-> TRUE]
JsBoolean(b) == [t |-> "boolean", b |-> b]
JsDate(ms) == [t |-> "Date", ms |-> ms]
JsArray(seq) == [t |-> "array", a |-> seq]
JsObject(f) == [t |-> "object", o |-> f]

DigitChars == <<"0", "1", "2", "3", "4", "5", "6", "7", "8", "9">>
DigitOf(ch) == (CHOOSE d \in 1..10 : DigitChars[d] = ch) - 1
IsDigit(ch) == \E d \in 1..10 : DigitChars[d] = ch

\* Math.floor(n): the largest integer not above n
MathFloor(n) ==
    IF n.frac = 0 THEN n
    ELSE IF ~n.neg THEN [n EXCEPT !.frac = 0]
    ELSE IF n.m < 9 THEN [n EXCEPT !.m = @ + 1, !.frac = 0]
    ELSE [n EXCEPT !.m = 1, !.e = 1, !.frac = 0]

\* String(n) for an integral n: the decimal digits below 10^21, exponent
\* notation from 10^21 on, a leading minus sign for a negative n
NumberToString(n) ==
    (IF n.neg /\ n.m # 0 THEN <<"-">> ELSE <<>>) \o
    (IF n.e < 21
     THEN <<DigitChars[n.m + 1]>> \o [j \in 1..n.e |-> "0"]
     ELSE <<DigitChars[n.m + 1], "e", "+",
            DigitChars[(n.e \div 10) + 1], DigitChars[(n.e % 10) + 1]>>)

\* parseInt(str, 10): the number written by the sign and the leading digits
\* of str, NaN when there is no digit
parseInt(str) ==
    LET neg == Len(str) > 0 /\ str[1] = "-"
        digits == IF neg THEN Tail(str) ELSE str
        stop == IF \E j \in 1..Len(digits) : ~IsDigit(digits[j])
                THEN CHOOSE j \in 1..Len(digits) :
                        ~IsDigit(digits[j]) /\ \A h \in 1..(j - 1) : IsDigit(digits[h])
                ELSE Len(digits) + 1
    IN IF stop = 1 THEN JsNaN
       ELSE [JsNumber(DigitOf(digits[1]), stop - 2) EXCEPT !.neg = neg]

\* Date.prototype.toISOString: calendar day and time of day, to the
\* millisecond (86400000 ms a day)
toISOString(ms) == [day |-> ms \div 86400000, time |-> ms % 86400000]
\* new Date(isoString)
NewDate(iso) == JsDate(iso.day * 86400000 + iso.time)

RECURSIVE toFirestoreValue(_)
RECURSIVE toFirestoreFields_KeepId(_)
RECURSIVE toFirestoreFields(_)
RECURSIVE parseFirestoreValue_NullForBareArray(_)
RECURSIVE parseFirestoreValue(_)

toFirestoreValue(value) ==
    CASE value.t = "null" -> [nullValue |-> "null"]
      [] value.t = "string" -> [stringValue |-> value.s]
      [] value.t = "number" -> [integerValue |-> NumberToString(MathFloor(value))]
      [] value.t = "boolean" -> [booleanValue |-> value.b]
      [] value.t = "Date" -> [timestampValue |-> toISOString(value.ms)]
      [] value.t = "array" ->
            [arrayValue |-> [values |-> [j \in 1..Len(value.a) |-> toFirestoreValue(value.a[j])]]]
      [] value.t = "object" ->
            [mapValue |-> [fields |-> toFirestoreFields(value.o)]]

\* variant: every key is encoded
toFirestoreFields_KeepId(obj) ==
    [key \in DOMAIN obj |-> toFirestoreValue(obj[key])]

\* toFirestoreFields(obj): every key but id
toFirestoreFields(obj) ==
    [key \in {k \in DOMAIN obj : k # "id"} |-> toFirestoreValue(obj[key])]

\* variant: an arrayValue without a values list is not recognised
parseFirestoreValue_NullForBareArray(value) ==
    IF "stringValue" \in DOMAIN value THEN JsString(value.stringValue)
    ELSE IF "integerValue" \in DOMAIN value THEN parseInt(value.integerValue)
    ELSE IF "booleanValue" \in DOMAIN value THEN JsBoolean(value.booleanValue)
    ELSE IF "nullValue" \in DOMAIN value THEN JsNull
    ELSE IF "timestampValue" \in DOMAIN value THEN NewDate(value.timestampValue)
    ELSE IF "arrayValue" \in DOMAIN value /\ "values" \in DOMAIN value.arrayValue
    THEN JsArray([j \in 1..Len(value.arrayValue.values) |->
                    parseFirestoreValue_NullForBareArray(value.arrayValue.values[j])])
    ELSE IF "mapValue" \in DOMAIN value /\ "fields" \in DOMAIN value.mapValue
    THEN JsObject([key \in DOMAIN value.mapValue.fields |->
                    parseFirestoreValue_NullForBareArray(value.mapValue.fields[key])])
    ELSE JsNull

\* parseFirestoreValue(value): the first tag present decides; values?.map(...)
\* || [] and fields || {} stand in for a missing list or map
parseFirestoreValue(value) ==
    IF "stringValue" \in DOMAIN value THEN JsString(value.stringValue)
    ELSE IF "integerValue" \in DOMAIN value THEN parseInt(value.integerValue)
    ELSE IF "booleanValue" \in DOMAIN value THEN JsBoolean(value.booleanValue)
    ELSE IF "nullValue" \in DOMAIN value THEN JsNull
    ELSE IF "timestampValue" \in DOMAIN value THEN NewDate(value.timestampValue)
    ELSE IF "arrayValue" \in DOMAIN value
    THEN IF "values" \in DOMAIN value.arrayValue
         THEN JsArray([j \in 1..Len(value.arrayValue.values) |->
                         parseFirestoreValue(value.arrayValue.values[j])])
         ELSE JsArray(<<>>)
    ELSE IF "mapValue" \in DOMAIN value
    THEN IF "fields" \in DOMAIN value.mapValue
         THEN JsObject([key \in DOMAIN value.mapValue.fields |->
                         parseFirestoreValue(value.mapValue.fields[key])])
         ELSE JsObject(<<>>)
    ELSE JsNull

\* parseFirestoreDocument(doc): the parsed fields, and id from the last
\* segment of doc.name
parseFirestoreDocument(doc) ==
    [key \in DOMAIN doc.fields \cup {"id"} |->
        IF key = "id" THEN JsString(IdOf(doc.name))
        ELSE parseFirestoreValue(doc.fields[key])]

\* the values the codec is run on: atoms, arrays and objects of atoms, and
\* objects and arrays that nest those
CodecAtoms ==
    {JsNull, JsString("a"), JsString(""), JsBoolean(TRUE), JsBoolean(FALSE),
     JsNumber(0, 0), JsNumber(7, 2), JsNumber(1, 21), JsDate(86400001), JsDate(-1)}
FewAtoms == {JsNull, JsString("a"), JsNumber(7, 2), JsDate(86400001)}

ObjectsOver(keys, values) ==
    {JsObject(f) : f \in UNION {[ks -> values] : ks \in SUBSET keys}}

CodecFlat ==
    CodecAtoms
    \cup {JsArray(<<>>)} \cup {JsArray(<<v>>) : v \in CodecAtoms}
    \cup {JsArray(<<v, w>>) : v \in FewAtoms, w \in FewAtoms}
    \cup ObjectsOver({"id", "n"}, FewAtoms)

CodecValues ==
    CodecFlat
    \cup {JsObject([k \in {"m"} |-> v]) : v \in CodecFlat}
    \cup {JsObject([k \in {"id", "m"} |-> IF k = "id" THEN JsString("x") ELSE v]) :
            v \in CodecFlat}
    \cup {JsArray(<<v>>) : v \in ObjectsOver({"id", "n"}, FewAtoms)}

\* the numbers the codec is run on: integral, fractional and negative ones
CodecNumbers ==
    {JsNumber(0, 0), JsNumber(7, 2), JsNumber(9, 20), JsNumber(1, 21),
     JsDecimal(FALSE, 2, 7), JsDecimal(FALSE, 2, 5), JsDecimal(FALSE, 0, 5),
     JsDecimal(FALSE, 9, 9), JsDecimal(TRUE, 3, 0), JsDecimal(TRUE, 2, 5),
     JsDecimal(TRUE, 2, 1), JsDecimal(TRUE, 0, 5), JsDecimal(TRUE, 9, 5)}

\* wire values as the REST API may send them: the seven tags the decoder
\* knows, tags it does not know, no tag at all, and an array and a map
\* without their list of values or fields
WireValues ==
    {[stringValue |-> "a"],
     [integerValue |-> <<"7">>],
     [booleanValue |-> TRUE],
     [nullValue |-> "null"],
     [timestampValue |-> toISOString(1)],
     [arrayValue |-> [values |-> <<[stringValue |-> "a"], [doubleValue |-> "2.5"]>>]],
     [mapValue |-> [fields |-> [n |-> [referenceValue |-> "projects/p/databases/d"]]]],
     [arrayValue |-> <<>>],
     [mapValue |-> <<>>],
     [doubleValue |-> "2.5"],
     [referenceValue |-> "projects/p/databases/d"],
     [geoPointValue |-> "0,0"],
     [bytesValue |-> "AA=="],
     <<>>}

\* the steps after which the codec takes its next input
CodecIdle == {"init", "decoded", "parsed", "numberDecoded", "wireDecoded"}

\* a number is encoded by toFirestoreValue and decoded by parseFirestoreValue
NumberRoundTrip(n) ==
    /\ last.op \in CodecIdle
    /\ last' = [op |-> "numberDecoded", x |-> n, enc |-> toFirestoreValue(n),
                y |-> parseFirestoreValue(toFirestoreValue(n))]
    /\ accessed' = {}
    /\ UNCHANGED <<storeVars, projVars, auditLogs, rulesDeployed, now, authVars,
                   taskPageVars>>

\* a value received from the REST API is decoded by parseFirestoreValue
DecodeWire(w) ==
    /\ last.op \in CodecIdle
    /\ last' = [op |-> "wireDecoded", enc |-> w, y |-> parseFirestoreValue(w)]
    /\ accessed' = {}
    /\ UNCHANGED <<storeVars, projVars, auditLogs, rulesDeployed, now, authVars,
                   taskPageVars>>

\* a value is picked
CodecInput(x) ==
    /\ last.op \in CodecIdle
    /\ last' = [op |-> "input", x |-> x]
    /\ accessed' = {}
    /\ UNCHANGED <<storeVars, projVars, auditLogs, rulesDeployed, now, authVars,
                   taskPageVars>>

\* toFirestoreValue(x)
EncodeValue ==
    /\ last.op = "input"
    /\ last' = [op |-> "encoded", x |-> last.x, enc |-> toFirestoreValue(last.x)]
    /\ accessed' = {}
    /\ UNCHANGED <<storeVars, projVars, auditLogs, rulesDeployed, now, authVars,
                   taskPageVars>>

\* parseFirestoreValue of the encoded value
DecodeValue ==
    /\ last.op = "encoded"
    /\ last' = [op |-> "decoded", x |-> last.x, enc |-> last.enc,
                y |-> parseFirestoreValue(last.enc)]
    /\ accessed' = {}
    /\ UNCHANGED <<storeVars, projVars, auditLogs, rulesDeployed, now, authVars,
                   taskPageVars>>

\* setDocumentViaRest(collectionPath, documentId, data): the request body
\* { fields: toFirestoreFields(data) } for the document path
SendDocument(uid) ==
    /\ last.op = "input"
    /\ last.x.t = "object"
    /\ last' = [op |-> "sent", x |-> last.x, name |-> UserRef(uid),
                fields |-> toFirestoreFields(last.x.o)]
    /\ accessed' = {UserRef(uid)}
    /\ UNCHANGED <<storeVars, projVars, auditLogs, rulesDeployed, now, authVars,
                   taskPageVars>>

\* setDocumentViaRest: parseFirestoreDocument of the document sent back
ParseDocument ==
    /\ last.op = "sent"
    /\ last' = [op |-> "parsed", x |-> last.x, name |-> last.name, fields |-> last.fields,
                y |-> parseFirestoreDocument([name |-> last.name, fields |-> last.fields])]
    /\ accessed' = {last.name}
    /\ UNCHANGED <<storeVars, projVars, auditLogs, rulesDeployed, now, authVars,
                   taskPageVars>>

NextCodec ==
    \/ \E x \in CodecValues : CodecInput(x)
    \/ EncodeValue
    \/ DecodeValue
    \/ \E uid \in Uids : SendDocument(uid)
    \/ ParseDocument
    \/ \E n \in CodecNumbers : NumberRoundTrip(n)
    \/ \E w \in WireValues : DecodeWire(w)

SpecCodec == InitUser /\ [][NextCodec]_vars

\* ------------------------------------------------------ queries (getDocs)
JsUndefined == [t |-> "undefined"]

\* if (filters?.x): undefined and the empty string are skipped; an array
\* and a Date are truthy
Truthy(v) == v.t # "undefined" /\ ~(v.t = "string" /\ v.s = "")

\* QueryConstraint values
where(field, op, value) == [kind |-> "where", field |-> field, op |-> op, value |-> value]
orderBy(field, dir) == [kind |-> "orderBy", field |-> field, dir |-> dir]
limit(n) == [kind |-> "limit", n |-> n]

\* the order in which an unordered query lists documents (by document id)
DocOrder == <<"d1", "d2", "d3">>
DocIds == {DocOrder[j] : j \in 1..Len(DocOrder)}
IdRank(id) == CHOOSE j \in 1..Len(DocOrder) : DocOrder[j] = id

\* Array.prototype.sort (stable) by an integer rank
StableSort(seq, Rank(_)) ==
    LET n == Len(seq)
        perm == CHOOSE p \in [1..n -> 1..n] :
                    /\ \A i, j \in 1..n : i # j => p[i] # p[j]
                    /\ \A i, j \in 1..n : i < j =>
                          \/ Rank(seq[p[i]]) < Rank(seq[p[j]])
                          \/ Rank(seq[p[i]]) = Rank(seq[p[j]]) /\ p[i] < p[j]
    IN [i \in 1..n |-> seq[perm[i]]]

\* the documents of a set, in document-id order
IdSeq(ids) == SelectSeq(DocOrder, LAMBDA id : id \in ids)

\* a document satisfies a where constraint; a missing field satisfies none
Matches(doc, w) ==
    CASE w.op = "array-contains" -> w.value.s \in doc[w.field]
      [] w.op = "==" -> doc[w.field] = w.value.s
      [] w.op = "in" -> doc[w.field] \in {w.value.a[j].s : j \in 1..Len(w.value.a)}
      [] w.op = "<=" -> doc[w.field] # NoTime /\ doc[w.field] <= w.value.ms
      [] w.op = ">=" -> doc[w.field] # NoTime /\ doc[w.field] >= w.value.ms
      [] w.op = "<" -> doc[w.field] # NoTime /\ doc[w.field] < w.value.ms

Constraints(constraints, kind) == SelectSeq(constraints, LAMBDA k : k.kind = kind)

\* query(...): the store rejects a query with more than one array-contains
ValidQuery(constraints) ==
    \A i, j \in 1..Len(constraints) :
        (/\ constraints[i].kind = "where" /\ constraints[j].kind = "where"
         /\ constraints[i].op = "array-contains" /\ constraints[j].op = "array-contains")
            => i = j

\* a filter on one field with an ordering on another is served by a
\* composite index only
NeedsCompositeIndex(constraints) ==
    \E i, j \in 1..Len(constraints) :
        /\ constraints[i].kind = "where"
        /\ constraints[j].kind = "orderBy"
        /\ constraints[i].field # constraints[j].field

\* getDocs(query(collection, ...constraints)): the snapshot's documents (ids)
\* in query order, or the rejection of a query that is invalid or lacks its
\* index; an ordering leaves out the documents without the ordering field
getDocs(store, constraints, indexes) ==
    LET wheres == Constraints(constraints, "where")
        orders == Constraints(constraints, "orderBy")
        limits == Constraints(constraints, "limit")
        matched == {id \in DOMAIN store :
                        /\ \A j \in 1..Len(wheres) : Matches(store[id], wheres[j])
                        /\ \A j \in 1..Len(orders) : store[id][orders[j].field] # NoTime}
        ordered == IF orders = <<>> THEN IdSeq(matched)
                   ELSE StableSort(IdSeq(matched), LAMBDA id : store[id][orders[1].field])
        size == IF limits = <<>> \/ limits[1].n > Len(ordered) THEN Len(ordered)
                ELSE limits[1].n
    IN
    IF ~ValidQuery(constraints) \/ (NeedsCompositeIndex(constraints) /\ ~indexes)
    THEN [ok |-> FALSE, docs |-> <<>>]
    ELSE [ok |-> TRUE, docs |-> SubSeq(ordered, 1, size)]

Optional(present, constraint) == IF present THEN <<constraint>> ELSE <<>>

\* variant: the priority filter is left out when a status filter is given
getTasksConstraints_DropsPriority(filters, pagination) ==
    Optional(Truthy(filters.assigneeId),
             where("assigneeIds", "array-contains", filters.assigneeId))
    \o Optional(Truthy(filters.projectId), where("projectId", "==", filters.projectId))
    \o Optional(Truthy(filters.teamId), where("teamId", "==", filters.teamId))
    \o Optional(Truthy(filters.status),
                IF filters.status.t = "array"
                THEN where("status", "in", filters.status)
                ELSE where("status", "==", filters.status))
    \o Optional(Truthy(filters.priority) /\ ~Truthy(filters.status),
                where("priority", "==", filters.priority))
    \o Optional(Truthy(filters.dueBefore), where("dueDate", "<=", filters.dueBefore))
    \o Optional(Truthy(filters.dueAfter), where("dueDate", ">=", filters.dueAfter))
    \o <<orderBy("dueDate", "asc")>>
    \o Optional(pagination.limit # 0, limit(pagination.limit))

\* getTasks(orgId, filters, pagination): the constraints it composes
getTasksConstraints(filters, pagination) ==
    Optional(Truthy(filters.assigneeId),
             where("assigneeIds", "array-contains", filters.assigneeId))
    \o Optional(Truthy(filters.projectId), where("projectId", "==", filters.projectId))
    \o Optional(Truthy(filters.teamId), where("teamId", "==", filters.teamId))
    \o Optional(Truthy(filters.status),
                IF filters.status.t = "array"
                THEN where("status", "in", filters.status)
                ELSE where("status", "==", filters.status))
    \o Optional(Truthy(filters.priority), where("priority", "==", filters.priority))
    \o Optional(Truthy(filters.dueBefore), where("dueDate", "<=", filters.dueBefore))
    \o Optional(Truthy(filters.dueAfter), where("dueDate", ">=", filters.dueAfter))
    \o <<orderBy("dueDate", "asc")>>
    \o Optional(pagination.limit # 0, limit(pagination.limit))

\* getOverdueTasks(orgId, assigneeId): the constraints it composes
getOverdueTasksConstraints(assigneeId) ==
    Optional(Truthy(assigneeId), where("assigneeIds", "array-contains", assigneeId))
    \o <<where("status", "in",
               JsArray(<<JsString("backlog"), JsString("in_progress"), JsString("blocked")>>)),
         where("dueDate", "<", JsDate(now)),
         orderBy("dueDate", "asc")>>

\* task documents a collection may hold (dueDate NoTime: no due date)
TaskDocs ==
    [id \in DocIds |->
        CASE id = "d1" -> [assigneeIds |-> {"u1"}, projectId |-> "p1", teamId |-> "tm1",
                           status |-> "backlog", priority |-> "high", dueDate |-> 2]
          [] id = "d2" -> [assigneeIds |-> {"u1", "u2"}, projectId |-> "p1", teamId |-> "none",
                           status |-> "done", priority |-> "high", dueDate |-> 1]
          [] id = "d3" -> [assigneeIds |-> {"u2"}, projectId |-> "none", teamId |-> "tm1",
                           status |-> "in_progress", priority |-> "low", dueDate |-> NoTime]]

\* the collections queried: the documents of any subset of the ids
Collections(docs) == {[id \in ids |-> docs[id]] : ids \in SUBSET DocIds}

\* the filters callers pass to getTasks
TaskFilters ==
    [assigneeId : {JsUndefined, JsString("u1")},
     projectId : {JsUndefined, JsString("p1")},
     teamId : {JsUndefined},
     status : {JsUndefined, JsString(""), JsString("done"),
               JsArray(<<JsString("backlog"), JsString("in_progress"), JsString("blocked")>>)},
     priority : {JsUndefined, JsString(""), JsString("high")},
     dueBefore : {JsUndefined, JsDate(1)},
     dueAfter : {JsUndefined, JsDate(1)}]

Paginations == {[limit |-> 0], [limit |-> 1]}

\* the queries are independent of one another: one is issued per clock reading
QueryIdle == {"init", "tick"}

\* getTasks(orgId, filters, pagination) against a collection
getTasks(store, filters, pagination, indexes) ==
    LET constraints == getTasksConstraints(filters, pagination)
        snapshot == getDocs(store, constraints, indexes)
    IN
    /\ last.op \in QueryIdle
    /\ last' = [op |-> "getTasks", store |-> store, filters |-> filters,
                pagination |-> pagination, indexes |-> indexes,
                constraints |-> constraints,
                outcome |-> IF snapshot.ok THEN "ok" ELSE "failed",
                result |-> snapshot.docs]
    /\ accessed' = {getTasksPath(defaultOrgId)}
    /\ UNCHANGED <<storeVars, projVars, auditLogs, rulesDeployed, now, authVars,
                   taskPageVars>>

\* getOverdueTasks(orgId, assigneeId) against a collection
getOverdueTasks(store, assigneeId, indexes) ==
    LET constraints == getOverdueTasksConstraints(assigneeId)
        snapshot == getDocs(store, constraints, indexes)
    IN
    /\ last.op \in QueryIdle
    /\ last' = [op |-> "getOverdueTasks", store |-> store, assigneeId |-> assigneeId,
                indexes |-> indexes, constraints |-> constraints,
                outcome |-> IF snapshot.ok THEN "ok" ELSE "failed",
                result |-> snapshot.docs]
    /\ accessed' = {getTasksPath(defaultOrgId)}
    /\ UNCHANGED <<storeVars, projVars, auditLogs, rulesDeployed, now, authVars,
                   taskPageVars>>

\* String.prototype.localeCompare on the names in use: lower case before
\* upper case of the same letter, letters in alphabetic order
Collation == <<"a", "b", "B">>
NameRank(name) == CHOOSE j \in 1..Len(Collation) : Collation[j] = name
localeCompare(a, b) ==
    IF NameRank(a) < NameRank(b) THEN -1 ELSE IF NameRank(a) > NameRank(b) THEN 1 ELSE 0

\* variant: the documents are returned in the order of the snapshot
sortByName_SnapshotOrder(store, docs) == docs

\* docs.sort((a, b) => a.name.localeCompare(b.name))
sortByName(store, docs) == StableSort(docs, LAMBDA id : NameRank(store[id].name))

\* getTeams(orgId, managerId): the constraints it composes (no orderBy)
getTeamsConstraints(managerId) ==
    Optional(Truthy(managerId), where("managerIds", "array-contains", managerId))

\* getProjects(orgId, filters): the constraints it composes (no orderBy)
getProjectsConstraints(filters) ==
    Optional(Truthy(filters.managerId),
             where("managerIds", "array-contains", filters.managerId))
    \o Optional(Truthy(filters.teamId), where("teamId", "==", filters.teamId))
    \o Optional(Truthy(filters.status), where("status", "==", filters.status))
    \o Optional(Truthy(filters.memberId),
                where("memberIds", "array-contains", filters.memberId))

\* team and project documents a collection may hold
TeamDocs ==
    [id \in DocIds |->
        CASE id = "d1" -> [name |-> "b", managerIds |-> {"u2"}]
          [] id = "d2" -> [name |-> "B", managerIds |-> {"u2", "u3"}]
          [] id = "d3" -> [name |-> "a", managerIds |-> {}]]

ProjectDocs ==
    [id \in DocIds |->
        CASE id = "d1" -> [name |-> "b", managerIds |-> {"u2"}, memberIds |-> {"u1"},
                           teamId |-> "tm1", status |-> "active"]
          [] id = "d2" -> [name |-> "a", managerIds |-> {"u2"}, memberIds |-> {},
                           teamId |-> "none", status |-> "active"]
          [] id = "d3" -> [name |-> "a", managerIds |-> {}, memberIds |-> {"u1"},
                           teamId |-> "tm1", status |-> "archived"]]

ProjectFilters ==
    [managerId : {JsUndefined, JsString("u2")},
     teamId : {JsUndefined, JsString("tm1")},
     status : {JsUndefined, JsString(""), JsString("active")},
     memberId : {JsUndefined, JsString("u1")}]

\* getTeams(orgId, managerId) against a collection
getTeams(store, managerId, indexes) ==
    LET constraints == getTeamsConstraints(managerId)
        snapshot == getDocs(store, constraints, indexes)
    IN
    /\ last.op \in QueryIdle
    /\ last' = [op |-> "getTeams", store |-> store,
                filters |-> [managerId |-> managerId],
                indexes |-> indexes, constraints |-> constraints,
                outcome |-> IF snapshot.ok THEN "ok" ELSE "failed",
                result |-> sortByName(store, snapshot.docs)]
    /\ accessed' = {getTeamsPath(defaultOrgId)}
    /\ UNCHANGED <<storeVars, projVars, auditLogs, rulesDeployed, now, authVars,
                   taskPageVars>>

\* getProjects(orgId, filters) against a collection
getProjects(store, filters, indexes) ==
    LET constraints == getProjectsConstraints(filters)
        snapshot == getDocs(store, constraints, indexes)
    IN
    /\ last.op \in QueryIdle
    /\ last' = [op |-> "getProjects", store |-> store, filters |-> filters,
                indexes |-> indexes, constraints |-> constraints,
                outcome |-> IF snapshot.ok THEN "ok" ELSE "failed",
                result |-> sortByName(store, snapshot.docs)]
    /\ accessed' = {getProjectsPath(defaultOrgId)}
    /\ UNCHANGED <<storeVars, projVars, auditLogs, rulesDeployed, now, authVars,
                   taskPageVars>>

\* the queries of the store module, run against every collection, with and
\* without the composite indexes deployed
NextQuery ==
    \/ Tick
    \/ \E store \in Collections(TaskDocs), f \in TaskFilters, p \in Paginations,
          indexes \in BOOLEAN : getTasks(store, f, p, indexes)
    \/ \E store \in Collections(TaskDocs), a \in {JsUndefined, JsString("u1")},
          indexes \in BOOLEAN : getOverdueTasks(store, a, indexes)
    \/ \E store \in Collections(TeamDocs), m \in {JsUndefined, JsString("u2")},
          indexes \in BOOLEAN : getTeams(store, m, indexes)
    \/ \E store \in Collections(ProjectDocs), f \in ProjectFilters,
          indexes \in BOOLEAN : getProjects(store, f, indexes)

SpecQuery == InitUser /\ [][NextQuery]_vars

\* ============================================================== claims
TaskKeys == {defaultOrgId} \X TaskIds

\* C1: once a task's stored status is done, no status-change request of any
\* client changes it again.
C1_DoneIsTerminal ==
    [][\A k \in TaskKeys :
        (tasks[k].exists /\ tasks[k].status = "done" /\ last'.op = "statusChange")
            => (tasks'[k].exists /\ tasks'[k].status = "done")]_vars

\* the transition table as the claim states it
ClaimedTransitions ==
    {<<"backlog", "in_progress">>, <<"backlog", "done">>,
     <<"in_progress", "blocked">>, <<"in_progress", "done">>,
     <<"blocked", "in_progress">>}

C3_CompletedAtIffDone ==
    \A k \in TaskKeys :
        tasks[k].exists => ((tasks[k].completedAt # NoTime) <=> (tasks[k].status = "done"))

\* C4: once completedAt is set on a stored task no operation clears it, and
\* every write other than a status write to done (a status write to another
\* status, a generic update, a checklist update) leaves it unchanged.
C4_CompletedAtKept ==
    [][\A k \in TaskKeys :
        (tasks[k].exists /\ tasks[k].completedAt # NoTime /\ tasks'[k].exists) =>
            /\ tasks'[k].completedAt # NoTime
            /\ ~(last'.op = "statusChange" /\ last'.to = "done")
                    => tasks'[k].completedAt = tasks[k].completedAt]_vars

\* a status write to a status other than done was applied to a task whose
\* completedAt is set
C4_Witness ==
    /\ last.op = "statusChange"
    /\ last.outcome = "written"
    /\ last.to # "done"
    /\ \E k \in TaskKeys : tasks[k].exists /\ tasks[k].completedAt # NoTime

\* C6: when loadTask has fetched an existing task, the page holds the task
\* (and its comments) iff the actor's role is manager or admin or the actor's
\* id is in assigneeIds; in every other outcome the task state is null and the
\* comments state is empty, and a denied actor is redirected to /tasks.
C6_TaskAccess ==
    last.op = "loadTask" =>
        LET stored == tasks[<<defaultOrgId, last.taskId>>] IN
        /\ last.outcome \in {"shown", "denied"} =>
            /\ stored.exists
            /\ (last.outcome = "shown") <=>
                    (last.role \in {"manager", "admin"} \/ last.actor \in stored.assigneeIds)
        /\ last.outcome = "shown" =>
            /\ task[last.client] # NoDoc
            /\ task[last.client].id = last.taskId
            /\ pageComments[last.client] = comments[<<defaultOrgId, last.taskId>>]
        /\ last.outcome # "shown" =>
            /\ task[last.client] = NoDoc
            /\ pageComments[last.client] = <<>>
        /\ last.outcome = "denied" => last.redirect = "/tasks"

\* Scenario C: employee u1, not an assignee, was denied a task that has a comment
C6_Witness ==
    /\ last.op = "loadTask"
    /\ last.outcome = "denied"
    /\ last.actor = "u1"
    /\ last.role = "employee"
    /\ comments[<<defaultOrgId, last.taskId>>] # <<>>

Rank == [employee |-> 1, manager |-> 2, admin |-> 3]
WithRole(u, r) == [u EXCEPT !.role = r]

\* C7: hasMinimumRole(r, q) holds iff rank(r) >= rank(q) with employee=1,
\* manager=2, admin=3, and every role-gated check that passes for a signed-in
\* actor with role r1 passes for the same actor (same ownership sets) with
\* any role r2 >= r1.
C7_RoleChecksMonotone ==
    /\ \A r, q \in Roles : hasMinimumRole(r, q) <=> Rank[r] >= Rank[q]
    /\ \A c \in Clients : user[c] # NoUser =>
        \A r1, r2 \in Roles : Rank[r1] <= Rank[r2] =>
            LET a1 == WithRole(user[c], r1)
                a2 == WithRole(user[c], r2)
            IN
            /\ \A q \in Roles : hasMinimumRole(a1.role, q) => hasMinimumRole(a2.role, q)
            /\ useIsManager(a1) => useIsManager(a2)
            /\ useIsAdmin(a1) => useIsAdmin(a2)
            /\ \A t \in TeamIds : useCanManageTeam(a1, t) => useCanManageTeam(a2, t)
            /\ \A p \in ProjIds : useCanManageProject(a1, p) => useCanManageProject(a2, p)

\* the manager u2 is signed in with p1 among the managed projects and tm1
\* not among the managed teams: the project check passes for u2 as manager
\* and fails for u2 as employee, the team check passes only for u2 as admin
C7_Witness ==
    /\ user["c2"] # NoUser
    /\ user["c2"].role = "manager"
    /\ useCanManageProject(user["c2"], "p1")
    /\ ~useCanManageProject(WithRole(user["c2"], "employee"), "p1")
    /\ ~useCanManageTeam(user["c2"], "tm1")
    /\ useCanManageTeam(WithRole(user["c2"], "admin"), "tm1")

\* ---------------------------------------------------------------- C8
\* C8: whoever has edited a team or project is an admin, or a manager with
\* the id of that team or project in the own managedTeamIds /
\* managedProjectIds; an employee edits none.
C8_EditOnlyManaged ==
    (last.op \in {"updateProject", "updateTeam"} /\ last.outcome = "ok") =>
        LET actor == users[UserKey(last.actor)] IN
        \/ actor.role = "admin"
        \/ /\ actor.role = "manager"
           /\ last.op = "updateProject" => last.id \in actor.managedProjectIds
           /\ last.op = "updateTeam" => last.id \in actor.managedTeamIds

\* ---------------------------------------------------------------- C9
UserKeys == {defaultOrgId} \X Uids

\* the step changes the role or the status of an existing profile k
RoleOrStatusChanged(k) ==
    /\ users[k].exists
    /\ users'[k].exists
    /\ (users'[k].role # users[k].role \/ users'[k].status # users[k].status)

FirstSignInOps == {"activate", "registerCreate"}

Actors ==
    IF "actor" \in DOMAIN last THEN {last.actor}
    ELSE IF "client" \in DOMAIN last THEN {fbUser[last.client]}
    ELSE {fbUser[c] : c \in Clients} \ {"none"}

\* the orgId stored in the profile(s) of uid
ProfileOrgs(uid) ==
    {users[k].orgId : k \in {j \in DOMAIN users : j[2] = uid /\ users[j].exists}}

\* C10: the paths addressed by an operation all lie under orgs/<orgId>/ for
\* one org id, which is the orgId stored in the acting user's profile, and
\* every stored entity carries in its orgId field the org id of the path it
\* is stored under.
C10_OrgScoped ==
    /\ \A p \in accessed :
        /\ Len(p) >= 3
        /\ p[1] = "orgs"
        /\ \A q \in accessed : OrgOf(q) = OrgOf(p)
        /\ \A a \in Actors : \A o \in ProfileOrgs(a) : OrgOf(p) = o
    /\ \A k \in DOMAIN users : users[k].exists => users[k].orgId = k[1]
    /\ \A k \in DOMAIN tasks : tasks[k].exists => tasks[k].orgId = k[1]
    /\ \A k \in DOMAIN projects : projects[k].exists => projects[k].orgId = k[1]
    /\ \A k \in DOMAIN teams : teams[k].exists => teams[k].orgId = k[1]

\* u1, whose profile was created at the first sign-in, has commented on a
\* task while a project and a team exist as well
C10_Witness ==
    /\ last.op = "addComment"
    /\ last.outcome = "ok"
    /\ accessed = {getCommentsPath(defaultOrgId, "t1")}
    /\ fbUser["c2"] = "u1"
    /\ users[UserKey("u1")].exists
    /\ tasks[<<defaultOrgId, "t1">>].exists
    /\ projects[ProjKey("p1")].exists
    /\ teams[TeamKey("tm1")].exists

\* --------------------------------------------------------------- C11
BackRefFields == {"managedTeamIds", "managedProjectIds", "teamIds", "projectIds"}

\* C11: when createTeam (createProject) with managerIds M and memberIds E has
\* completed successfully, the new id is in managedTeamIds
\* (managedProjectIds) of every user in M and in teamIds (projectIds) of
\* every user in E, and no user outside M and E has the id in any of those
\* sets.
C11_BackReferences ==
    [][(last'.op \in {"createProject", "createTeam"} /\ last'.outcome = "ok") =>
        LET id == last'.id
            isProject == last'.op = "createProject"
            created == IF isProject THEN projects'[ProjKey(id)] ELSE teams'[TeamKey(id)]
            managed == IF isProject THEN "managedProjectIds" ELSE "managedTeamIds"
            member == IF isProject THEN "projectIds" ELSE "teamIds"
        IN
        \A u \in Uids :
            /\ u \in created.managerIds => id \in users'[UserKey(u)][managed]
            /\ u \in created.memberIds => id \in users'[UserKey(u)][member]
            /\ (u \notin created.managerIds \cup created.memberIds
                    /\ users'[UserKey(u)].exists) =>
                    \A f \in BackRefFields : id \notin users'[UserKey(u)][f]
      ]_vars

\* createTeam with managerIds {u2} and memberIds {u1, u2} has succeeded
C11_Witness ==
    /\ last.op = "createTeam"
    /\ last.outcome = "ok"
    /\ teams[TeamKey("tm1")].managerIds = {"u2"}
    /\ teams[TeamKey("tm1")].memberIds = {"u1", "u2"}
    /\ "tm1" \in users[UserKey("u2")].managedTeamIds
    /\ "tm1" \in users[UserKey("u1")].teamIds
    /\ "tm1" \notin users[UserKey("u1")].managedTeamIds

\* --------------------------------------------------------------- C12
MutatingOps ==
    {"createTask", "deleteTask", "statusChange", "saveChanges", "checklist"}

\* C12: when a handler has mutated a task successfully, the audit log of the
\* org holds an entry for that task attributed to the acting user's id and
\* email.
C12_MutationsAudited ==
    (last.op \in MutatingOps /\ last.outcome \in {"ok", "written"}) =>
        \E k \in DOMAIN auditLogs :
            /\ k[1] = defaultOrgId
            /\ auditLogs[k].exists
            /\ auditLogs[k].entityType = "task"
            /\ auditLogs[k].entityId \in TaskIds
            /\ auditLogs[k].actorId \in Actors
            /\ auditLogs[k].actorEmail = users[UserKey(auditLogs[k].actorId)].email

\* --------------------------------------------------------------- C13
\* C13: an audit log entry that exists is never modified and never deleted.
C13_AppendOnly ==
    [][\A k \in DOMAIN auditLogs : auditLogs[k].exists => auditLogs'[k] = auditLogs[k]]_vars

\* two entries are stored, the first written at an earlier time, and a
\* handler has since deleted a task
C13_Witness ==
    /\ \A id \in LogIds : auditLogs[<<defaultOrgId, id>>].exists
    /\ \E id \in LogIds : auditLogs[<<defaultOrgId, id>>].createdAt < now
    /\ last.op = "deleteTask"
    /\ last.outcome = "ok"

\* --------------------------------------------------------------- C14
RECURSIVE HasIdKey(_)
\* some map inside x has a key named id
HasIdKey(x) ==
    CASE x.t = "array" -> \E j \in 1..Len(x.a) : HasIdKey(x.a[j])
      [] x.t = "object" -> "id" \in DOMAIN x.o \/ \E key \in DOMAIN x.o : HasIdKey(x.o[key])
      [] OTHER -> FALSE

\* C14: for every value x built from strings, integral numbers, booleans,
\* null, Date timestamps and arrays and maps of such values, with no map key
\* named id, parseFirestoreValue(toFirestoreValue(x)) equals x.
C14_RoundTrip ==
    (last.op = "decoded" /\ ~HasIdKey(last.x)) => last.y = last.x

\* --------------------------------------------------------------- C15
RECURSIVE EncodedHasId(_)
\* some map inside the encoded value has a field named id
EncodedHasId(enc) ==
    IF "arrayValue" \in DOMAIN enc
    THEN \E j \in 1..Len(enc.arrayValue.values) : EncodedHasId(enc.arrayValue.values[j])
    ELSE IF "mapValue" \in DOMAIN enc
    THEN \/ "id" \in DOMAIN enc.mapValue.fields
         \/ \E key \in DOMAIN enc.mapValue.fields : EncodedHasId(enc.mapValue.fields[key])
    ELSE FALSE

\* C15: the fields produced by toFirestoreFields contain no key id, at the
\* top level and in every nested map; the id of a decoded document is the
\* last segment of its store path.
C15_NoIdInPayload ==
    /\ last.op \in {"sent", "parsed"} =>
            ~EncodedHasId([mapValue |-> [fields |-> last.fields]])
    /\ last.op \in {"encoded", "decoded"} => ~EncodedHasId(last.enc)
    /\ last.op = "parsed" => last.y["id"] = JsString(IdOf(last.name))

\* an object with an id of its own, and a nested map with an id, has been
\* sent for document u1 and parsed back
C15_Witness ==
    /\ last.op = "parsed"
    /\ IdOf(last.name) = "u1"
    /\ "id" \in DOMAIN last.x.o
    /\ last.x.o["id"] = JsString("x")
    /\ "m" \in DOMAIN last.x.o
    /\ last.x.o["m"].t = "object"
    /\ "id" \in DOMAIN last.x.o["m"].o
    /\ last.y["id"] = JsString("u1")
    /\ "n" \in DOMAIN last.y["m"].o

\* --------------------------------------------------------------- C16
\* C16: in every reachable state the emails of the user records of an org
\* are stored lowercase and no two records of the org share an email.
C16_EmailUnique ==
    \A k1, k2 \in DOMAIN users :
        (users[k1].exists /\ users[k2].exists /\ k1[1] = k2[1]) =>
            /\ toLowerCase(users[k1].email) = users[k1].email
            /\ k1 # k2 => users[k1].email # users[k2].email

\* --------------------------------------------------------------- C17
\* C17: when loadUserData finds no profile for the signed-in identity it
\* writes one profile, keyed by the identity's uid, with role employee and
\* empty team, project and managed sets, and its activation leaves that
\* profile with status active; when the profile exists loadUserData writes
\* nothing to the users collection; and no step of any operation turns an
\* existing user record into a missing one.
C17_ProfileAutoCreate ==
    [][ LET k == UserKey(last'.actor) IN
        /\ last'.op = "autoCreate" =>
              /\ ~users[k].exists
              /\ users'[k].exists
              /\ users'[k].role = "employee"
              /\ users'[k].managedTeamIds = {} /\ users'[k].managedProjectIds = {}
              /\ users'[k].teamIds = {} /\ users'[k].projectIds = {}
              /\ \A o \in DOMAIN users : o # k => users'[o] = users[o]
        /\ (last'.op = "activate" /\ last'.outcome = "ok") =>
              /\ users'[k].exists
              /\ users'[k].status = "active"
              /\ \A o \in DOMAIN users : o # k => users'[o] = users[o]
        /\ last'.op = "loadProfile" => users' = users
        /\ \A o \in DOMAIN users : users[o].exists => users'[o].exists
      ]_vars

\* the newcomer u1 signed in without a profile and loadUserData completed
C17_Witness ==
    /\ last.op = "activate" /\ last.outcome = "ok" /\ last.actor = "u1"
    /\ users[UserKey("u1")].exists
    /\ users[UserKey("u1")].role = "employee"
    /\ users[UserKey("u1")].status = "active"
    /\ \E c \in Clients : user[c] # NoUser /\ user[c].id = "u1"

\* --------------------------------------------------------------- C18
\* C18: a task in done can be reopened: a status change to backlog requested
\* from a page that holds the task in done is not rejected by the
\* transition check.
C18_ReopenAllowed ==
    [][(last'.op = "statusChange" /\ last'.from = "done" /\ last'.to = "backlog")
            => last'.outcome # "rejected"]_vars

\* --------------------------------------------------------------- C19
\* the changes map the claim describes: one entry {before, after} for each
\* field whose values differ
Diff(before, after) ==
    {<<f, before[f], after[f]>> : f \in {g \in DOMAIN before : before[g] # after[g]}}

\* C19: a status change that is written is recorded with a changes map that
\* holds an entry {before, after} for exactly the fields of the stored task
\* whose values differ between the snapshot before and the snapshot after.
C19_AuditDiff ==
    [][(last'.op = "statusChange" /\ last'.outcome = "written") =>
        LET k == <<defaultOrgId, task[last'.client].id>> IN
        \E a \in DOMAIN auditLogs :
            /\ ~auditLogs[a].exists
            /\ auditLogs'[a].exists
            /\ auditLogs'[a].changes = Diff(tasks[k], tasks'[k])]_vars

\* --------------------------------------------------------------- C20
\* C20: a status change that is allowed from the status the requesting page
\* loaded is written whatever status the store holds by then (another client
\* may have written since the load): the write is applied unconditionally
\* while the task exists, and the stored status is then the one just written.
C20_LastWriteWins ==
    [][\A c \in Clients :
        (/\ last'.op = "statusChange"
         /\ last'.client = c
         /\ task[c] # NoDoc
         /\ last'.to \in TASK_STATUS_TRANSITIONS[task[c].status]
         /\ RequestAllowed(c)
         /\ tasks[<<defaultOrgId, task[c].id>>].exists)
        => /\ last'.outcome = "written"
           /\ tasks'[<<defaultOrgId, task[c].id>>].status = last'.to]_vars

\* both clients loaded t1 in backlog; c1 wrote done, then c2 wrote
\* in_progress from its copy: both writes were applied, the last one stands
C20_Witness ==
    /\ last.op = "statusChange" /\ last.outcome = "written"
    /\ last.client = "c2" /\ last.from = "backlog" /\ last.to = "in_progress"
    /\ task["c1"] # NoDoc /\ task["c2"] # NoDoc
    /\ task["c1"].id = task["c2"].id
    /\ task["c1"].status = "done"
    /\ tasks[<<defaultOrgId, task["c2"].id>>].status = "in_progress"
    /\ tasks[<<defaultOrgId, task["c2"].id>>].completedAt # NoTime

\* --------------------------------------------------------------- C21
\* C21: when loadUserData has loaded a profile whose status is disabled it
\* signs the identity out and leaves user = null, whatever the role of the
\* profile; and whenever a step sets user, the profile of that user is not
\* disabled.
C21_DisabledSignedOut ==
    [][\A c \in Clients :
        /\ (/\ lpc[c] = "load" /\ lpc'[c] = "idle"
            /\ last'.op = "loadProfile" /\ last'.outcome # "failed"
            /\ users[UserKey(fbUser[c])].exists
            /\ users[UserKey(fbUser[c])].status = "disabled")
           => (user'[c] = NoUser /\ fbUser'[c] = "none")
        /\ (user'[c] # NoUser /\ user'[c] # user[c])
           => users'[UserKey(user'[c].id)].status # "disabled"]_vars

\* u1, promoted to admin and then disabled, signed in and was signed out
C21_Witness ==
    /\ last.op = "loadProfile" /\ last.outcome = "disabled" /\ last.actor = "u1"
    /\ users[UserKey("u1")].role = "admin"
    /\ users[UserKey("u1")].status = "disabled"
    /\ user["c2"] = NoUser /\ fbUser["c2"] = "none"

\* --------------------------------------------------------------- C22
\* C22: when the SDK read fails with an offline/unavailable error the profile
\* is read through the REST fallback (so the load succeeds when the fallback
\* does); when the fallback fails too the user sees the connectivity message
\* and user is null; an SDK error of another kind fails the load without the
\* fallback, whatever the fallback would have returned.
C22_FallbackAndConnectivityError ==
    [][\A c \in Clients :
        (lpc[c] = "load" /\ lpc'[c] = "idle" /\ last'.op = "loadProfile"
            /\ ~last'.sdk.ok) =>
          LET offline == \/ includes(last'.sdk.message, "offline")
                         \/ includes(last'.sdk.message, "unavailable")
          IN
          /\ (offline /\ last'.rest.ok) => last'.outcome # "failed"
          /\ (offline /\ ~last'.rest.ok) =>
                /\ last'.outcome = "failed"
                /\ error'[c] = ConnectivityMessage
                /\ user'[c] = NoUser
          /\ ~offline =>
                /\ last'.outcome = "failed"
                /\ ~last'.fallback
                /\ user'[c] = NoUser]_vars

\* --------------------------------------------------------------- C28
\* C28: the dashboard layout renders the protected page exactly in the
\* states where loading has finished, error is null and user is set; in all
\* other states it shows the loader or the access-denied screen, and it
\* redirects to /login whenever loading has finished without a user; a user
\* is set only from a profile that is not disabled.
C28_ProtectedContent ==
    [][\A c \in Clients :
        /\ (DashboardLayout(c)' = "children")
              <=> (~loading'[c] /\ error'[c] = NoError /\ user'[c] # NoUser)
        /\ DashboardLayout(c)' # "children" =>
              \/ DashboardLayout(c)' \in {"PageLoader", "AccessDenied"}
              \/ RedirectsToLogin(c)'
        /\ (~loading'[c] /\ user'[c] = NoUser) => RedirectsToLogin(c)'
        /\ (user'[c] # NoUser /\ user'[c] # user[c]) =>
              /\ users'[UserKey(user'[c].id)].exists
              /\ users'[UserKey(user'[c].id)].status # "disabled"
              /\ DashboardLayout(c)' = "children"]_vars

\* u1 sees the page at c2 while the admin's client c1, reloaded with the
\* store out of reach, shows the access-denied screen
C28_Witness ==
    /\ DashboardLayout("c2") = "children"
    /\ user["c2"] # NoUser /\ user["c2"].id = "u1"
    /\ DashboardLayout("c1") = "AccessDenied"
    /\ RedirectsToLogin("c1")

\* --------------------------------------------------------------- C30
\* C30: once loadUserData has detected a disabled profile, the sign-out
\* notification that follows leaves error at the disabled-account message
\* and user null, so that the layout shows the access-denied screen.
C30_DisabledMessageKept ==
    [][\A c \in Clients :
        (authCb[c] /\ ~authCb'[c] /\ error[c] = DisabledMessage) =>
            /\ user'[c] = NoUser
            /\ error'[c] = DisabledMessage
            /\ DashboardLayout(c)' = "AccessDenied"]_vars

\* --------------------------------------------------------------- C29
\* C29: when the batch of back-references of createTeam (createProject)
\* fails, the caller gets the error, the entity document written before the
\* batch stays stored, and no user record has changed; when it succeeds the
\* entity is stored as well.
C29_NoRollback ==
    [][\A c \in Clients :
        (/\ last'.op \in {"createProject", "createTeam"}
         /\ user[c] # NoUser /\ last'.actor = user[c].id
         /\ RequestAllowed(c)) =>
        LET isProject == last'.op = "createProject"
            before == IF isProject THEN projects[ProjKey(last'.id)]
                      ELSE teams[TeamKey(last'.id)]
            after == IF isProject THEN projects'[ProjKey(last'.id)]
                     ELSE teams'[TeamKey(last'.id)]
        IN
        /\ before = NoDoc
        /\ after.exists
        /\ after.createdBy = last'.actor
        /\ last'.outcome = "failed" => users' = users]_vars

\* createTeam with manager u2 has failed in its batch: the team is stored
\* and u2 does not manage it
C29_Witness ==
    /\ last.op = "createTeam" /\ last.outcome = "failed"
    /\ teams[TeamKey("tm1")].exists
    /\ teams[TeamKey("tm1")].managerIds = {"u2"}
    /\ "tm1" \notin users[UserKey("u2")].managedTeamIds
    /\ users[UserKey("u2")].exists

\* --------------------------------------------------------------- C23
\* C23: a number n is encoded as the decimal string of floor(n), so that
\* decoding the encoding of n gives floor(n), which is n itself exactly when
\* n is integral.
C23_FloorRoundTrip ==
    last.op = "numberDecoded" =>
        /\ last.y = MathFloor(last.x)
        /\ (last.y = last.x) <=> (last.x.frac = 0)

\* --------------------------------------------------------------- C24
\* the seven tags parseFirestoreValue knows
KnownTags ==
    {"stringValue", "integerValue", "booleanValue", "nullValue", "timestampValue",
     "arrayValue", "mapValue"}

\* C24: a wire value that carries none of the seven known tags decodes to
\* null, at the top level and as an element of an array or a field of a map,
\* and an arrayValue without a values list decodes to the empty array.
C24_UnknownTagsDecodeToNull ==
    last.op = "wireDecoded" =>
        /\ DOMAIN last.enc \cap KnownTags = {} => last.y = JsNull
        /\ ("arrayValue" \in DOMAIN last.enc /\ "values" \in DOMAIN last.enc.arrayValue) =>
              \A j \in 1..Len(last.enc.arrayValue.values) :
                  DOMAIN last.enc.arrayValue.values[j] \cap KnownTags = {}
                      => last.y.a[j] = JsNull
        /\ ("mapValue" \in DOMAIN last.enc /\ "fields" \in DOMAIN last.enc.mapValue) =>
              \A key \in DOMAIN last.enc.mapValue.fields :
                  DOMAIN last.enc.mapValue.fields[key] \cap KnownTags = {}
                      => last.y.o[key] = JsNull
        /\ ("arrayValue" \in DOMAIN last.enc /\ "values" \notin DOMAIN last.enc.arrayValue) =>
              last.y = JsArray(<<>>)

\* an arrayValue without a values list has been decoded
C24_Witness ==
    /\ last.op = "wireDecoded"
    /\ "arrayValue" \in DOMAIN last.enc
    /\ "values" \notin DOMAIN last.enc.arrayValue
    /\ last.y = JsArray(<<>>)

\* --------------------------------------------------------------- C25
\* the predicate the claim expects for a filter of getTasks
ClaimedPredicate(filters, key) ==
    CASE key = "assigneeId" -> where("assigneeIds", "array-contains", filters.assigneeId)
      [] key = "projectId" -> where("projectId", "==", filters.projectId)
      [] key = "teamId" -> where("teamId", "==", filters.teamId)
      [] key = "status" -> IF filters.status.t = "array"
                           THEN where("status", "in", filters.status)
                           ELSE where("status", "==", filters.status)
      [] key = "priority" -> where("priority", "==", filters.priority)
      [] key = "dueBefore" -> where("dueDate", "<=", filters.dueBefore)
      [] key = "dueAfter" -> where("dueDate", ">=", filters.dueAfter)

NonEmpty(v) == v # JsUndefined /\ v # JsString("") /\ v # JsArray(<<>>)

\* C25: the query getTasks composes holds exactly one predicate for each
\* filter that is supplied and not empty, none dropped and none added; every
\* task it returns satisfies all of them; and no composed query (getTasks,
\* getOverdueTasks) holds more than one inclusion-in-set predicate.
C25_ConjunctionOfFilters ==
    last.op \in {"getTasks", "getOverdueTasks"} =>
        LET wheres == Constraints(last.constraints, "where") IN
        /\ Cardinality({j \in 1..Len(wheres) : wheres[j].op = "in"}) <= 1
        /\ last.op = "getTasks" =>
              LET supplied == {key \in DOMAIN last.filters : NonEmpty(last.filters[key])} IN
              /\ {wheres[j] : j \in 1..Len(wheres)}
                    = {ClaimedPredicate(last.filters, key) : key \in supplied}
              /\ Len(wheres) = Cardinality(supplied)
              /\ \A j \in 1..Len(last.result) :
                    LET doc == last.store[last.result[j]] IN
                    /\ NonEmpty(last.filters.assigneeId) =>
                            last.filters.assigneeId.s \in doc.assigneeIds
                    /\ NonEmpty(last.filters.projectId) =>
                            doc.projectId = last.filters.projectId.s
                    /\ NonEmpty(last.filters.status) =>
                            IF last.filters.status.t = "array"
                            THEN \E h \in 1..Len(last.filters.status.a) :
                                    doc.status = last.filters.status.a[h].s
                            ELSE doc.status = last.filters.status.s
                    /\ NonEmpty(last.filters.priority) =>
                            doc.priority = last.filters.priority.s
                    /\ NonEmpty(last.filters.dueBefore) =>
                            doc.dueDate <= last.filters.dueBefore.ms
                    /\ NonEmpty(last.filters.dueAfter) =>
                            doc.dueDate >= last.filters.dueAfter.ms

\* getTasks with an assignee, a set of statuses, a priority and a due-date
\* bound has returned the one task that satisfies them all
C25_Witness ==
    /\ last.op = "getTasks" /\ last.outcome = "ok"
    /\ last.filters.assigneeId = JsString("u1")
    /\ last.filters.status.t = "array"
    /\ last.filters.priority = JsString("high")
    /\ last.filters.dueAfter = JsDate(1)
    /\ DOMAIN last.store = DocIds
    /\ last.result = <<"d1">>

\* --------------------------------------------------------------- C26
\* C26: getTasks orders by dueDate ascending, and where the composite index
\* for its filters and that ordering is missing the query still succeeds and
\* returns the tasks the indexed query returns, in dueDate order.
C26_DegradesWithoutIndex ==
    last.op = "getTasks" =>
        /\ Constraints(last.constraints, "orderBy") = <<orderBy("dueDate", "asc")>>
        /\ last.outcome = "ok"
        /\ last.result = getDocs(last.store, last.constraints, TRUE).docs
        /\ \A i, j \in 1..Len(last.result) :
              i < j => last.store[last.result[i]].dueDate
                          <= last.store[last.result[j]].dueDate

\* --------------------------------------------------------------- C27
\* the documents of a collection that satisfy the filters supplied to
\* getTeams or getProjects
Matched(op, store, filters) ==
    {id \in DOMAIN store :
        /\ NonEmpty(filters.managerId) => filters.managerId.s \in store[id].managerIds
        /\ op = "getProjects" =>
              /\ NonEmpty(filters.teamId) => store[id].teamId = filters.teamId.s
              /\ NonEmpty(filters.status) => store[id].status = filters.status.s
              /\ NonEmpty(filters.memberId) => filters.memberId.s \in store[id].memberIds}

\* C27: getTeams and getProjects compose no server-side ordering, so they
\* succeed without any composite index, and what they return is a permutation
\* of the matched documents in which each name is <= the next by localeCompare.
C27_SortedByNameOnClient ==
    last.op \in {"getTeams", "getProjects"} =>
        /\ Constraints(last.constraints, "orderBy") = <<>>
        /\ ValidQuery(last.constraints) => last.outcome = "ok"
        /\ last.outcome = "ok" =>
              /\ {last.result[j] : j \in 1..Len(last.result)}
                    = Matched(last.op, last.store, last.filters)
              /\ Len(last.result) = Cardinality(Matched(last.op, last.store, last.filters))
              /\ \A j \in 1..(Len(last.result) - 1) :
                    localeCompare(last.store[last.result[j]].name,
                                  last.store[last.result[j + 1]].name) <= 0

\* getTeams has returned three teams, and getProjects two projects, in an
\* order by name that is not the order of the snapshot, with no index deployed
C27_Witness ==
    /\ last.op \in {"getTeams", "getProjects"}
    /\ ~last.indexes /\ last.outcome = "ok"
    /\ \/ last.op = "getTeams" /\ last.result = <<"d3", "d1", "d2">>
       \/ /\ last.op = "getProjects" /\ last.filters.status = JsString("active")
          /\ last.result = <<"d2", "d1">>

====
